---- MODULE Spec2Model ----
(***************************************************************************)
(* Secure-chat: the signed ephemeral-ECDH key exchange with key            *)
(* confirmation run by the browser client (app/page.tsx, hooks/use-crypto) *)
(* and the replay / ordering guard of the relay (server/index.ts, the Next *)
(* API route and the socket server).                                       *)
(*                                                                         *)
(* Cryptography is symbolic: a signature is the pair (signing identity,    *)
(* signed string), ECDH of a private and a public key is the unordered     *)
(* pair of the two key ids, HKDF and HMAC are injective in their inputs.   *)
(***************************************************************************)
EXTENDS Integers, Sequences, FiniteSets, TLC

\* ------------------------------------------------------------------ bounds
\* number of messages the network attacker replaces or replays
MaxForged == 1
\* the number of times the clock advances
MaxTick == 1

\* ------------------------------------------------------------- identities
Honest == {"a1", "b1"}
Mallory == "m1"
Users == Honest \cup {Mallory}
\* the clients that start a key exchange, once each
Initiators == {"a1"}

\* lexicographic order of the user ids, as Array.prototype.sort uses it
Rank(u) == CASE u = "a1" -> 1 [] u = "b1" -> 2 [] OTHER -> 3

\* [userId1, userId2].sort().join("-")
getSessionId(userId1, userId2) ==
    IF Rank(userId1) <= Rank(userId2) THEN <<userId1, userId2>> ELSE <<userId2, userId1>>

\* ------------------------------------------------------------------- time
\* 5 * 60 * 1000 ms
Window == 5 * 60 * 1000
TimeStep == Window + 1
Ticks == 0 .. MaxTick

\* Math.abs(Date.now() - timestamp) > 5 * 60 * 1000
AbsDiff(x, y) == IF x >= y THEN x - y ELSE y - x

\* a check that also turns away a timestamp exactly five minutes off
TimestampExpiredAtWindow(nowMs, timestamp) == AbsDiff(nowMs, timestamp) >= Window

TimestampExpired(nowMs, timestamp) == AbsDiff(nowMs, timestamp) > Window

\* ----------------------------------------------------------------- crypto
\* exportPublicKey of the identity key pair of user u
IdentityPublicKey(u) == [owner |-> u]

\* signData(identityPrivateKey of signer, data)
signData(signer, data) == [signer |-> signer, data |-> data]

\* verifySignature(publicKey, signature, data)
verifySignature(publicKey, signature, data) ==
    /\ signature.signer = publicKey.owner
    /\ signature.data = data

\* deriveSharedSecret(privateKey, publicKey): ECDH is symmetric in the two key pairs
deriveSharedSecret(privateKey, publicKey) == {privateKey, publicKey}

\* deriveSessionKey(sharedSecret, salt, info): HKDF-SHA256 to an AES-GCM key
deriveSessionKey(sharedSecret, salt, info) ==
    [secret |-> sharedSecret, salt |-> salt, info |-> info]

NoKey == [secret |-> {}, salt |-> <<>>, info |-> <<>>]

\* a key only the attacker holds
MalloryKey == [secret |-> {0}, salt |-> <<>>, info |-> <<>>]

\* the ephemeral ECDH key pair of the attacker
MalloryEph == 0

\* HMAC-SHA256(sessionKey, KEY_CONFIRM:senderId:recipientId:nonce:confirmationNonce)
ConfirmationHmac(sessionKey, senderId, recipientId, nonce, confirmationNonce) ==
    [key |-> sessionKey, data |-> <<"KEY_CONFIRM", senderId, recipientId, nonce, confirmationNonce>>]

\* verifyKeyConfirmation: recompute the HMAC and compare
verifyKeyConfirmation(sessionKey, senderId, recipientId, nonce, confirmationNonce, receivedHash) ==
    ConfirmationHmac(sessionKey, senderId, recipientId, nonce, confirmationNonce) = receivedHash

\* ------------------------------------------------------------------ state
VARIABLES
    now,                  \* milliseconds passed since the start
    pendingKeyExchange,   \* page.tsx state, per client
    pendingConfirmations, \* page.tsx state, per client: peer -> nonce
    sessionKeys,          \* use-crypto state, per client: peer -> key
    confirmedSessions,    \* use-crypto state, per client: set of peers
    keyStore,             \* IndexedDB "session-<id>" entries, per client
    keyExchangeError,     \* page.tsx state, per client
    keyExchanges,         \* key_exchange events emitted by the relay, not handled yet
    keyConfirmations,     \* key_confirmation events emitted by the relay, not handled yet
    serverSessions,       \* the relay's sessions collection
    nextEph,              \* ephemeral key pairs generated so far
    nextNonce,            \* nonces generated so far
    initiators,           \* clients that have yet to start their key exchange
    forged,               \* messages injected by the attacker so far
    sent,                 \* history: the key exchanges as honest clients sent them
    sentConfirmations,    \* history: the confirmations as honest clients sent them
    derivations,          \* history: session keys derived, with the handshake they belong to
    ev,                   \* history: the last client handler that ran and what it handled
    messages,             \* the relay's messages collection, in insertion order
    nonces,               \* the relay's nonces collection
    requests,             \* message-admission requests and where their handler stands
    emitted,              \* new_message events the relay emitted to recipients
    messageList,          \* page.tsx state, per client: the messages of the open chat
    identityStore,        \* IndexedDB "identity" entry, per browser
    usersCollection,      \* the relay's users collection: username -> public key
    nextIdentity,         \* identity key pairs generated so far
    currentUser,          \* page.tsx state, per browser: the user logged in
    original,             \* what was last encrypted: its kind, key and content
    envelope,             \* what the last encryption returned
    opened,               \* what decrypting the envelope gave
    sessionIdCall,        \* the last pair of user ids a session id was computed for
    account,              \* the relay's users document of a1: its two-factor fields
    nextSecret,           \* TOTP secrets generated so far
    authLog,              \* history: the last request to an auth route and its answer
    files,                \* the relay's files collection, in insertion order
    download,             \* history: the last file download request and its answer
    selectedUser,         \* page.tsx state and selectedUserRef, per browser: the open chat
    inflight              \* handlers of the page waiting for a promise, with what they captured

hsVars == <<pendingKeyExchange, pendingConfirmations, sessionKeys, confirmedSessions,
            keyStore, keyExchangeError, keyExchanges, keyConfirmations, serverSessions,
            nextEph, nextNonce, initiators, forged, sent, sentConfirmations, derivations, ev>>

guardVars == <<messages, nonces, requests, emitted>>

chatVars == <<messageList>>

idVars == <<identityStore, usersCollection, nextIdentity, currentUser>>

cipherVars == <<original, envelope, opened>>

sidVars == <<sessionIdCall>>

apiVars == <<account, nextSecret, authLog, files, download>>

switchVars == <<selectedUser, inflight>>

vars == <<now, hsVars, guardVars, chatVars, idVars, cipherVars, sidVars, apiVars, switchVars>>

NoPending == [recipientId |-> "none", ephemeralPrivateKey |-> 0, nonce |-> 0]
NoNonce == 0

NoExchange ==
    [type |-> "none", senderId |-> "none", recipientId |-> "none",
     senderPublicKey |-> [owner |-> "none"], ephemeralPublicKey |-> 0,
     signature |-> [signer |-> "none", data |-> <<>>], timestamp |-> 0, nonce |-> 0]

NoConfirmationMsg ==
    [senderId |-> "none", recipientId |-> "none", confirmationHash |-> [key |-> NoKey, data |-> <<>>],
     confirmationNonce |-> 0, originalNonce |-> 0, timestamp |-> 0]

NoEvent == [kind |-> "none", party |-> "none", peer |-> "none", exchange |-> NoExchange,
            confirmation |-> NoConfirmationMsg]

SessionIds == {getSessionId(p, q) : p \in Users, q \in Users}

HsInit ==
    /\ now = 0
    /\ pendingKeyExchange = [p \in Honest |-> NoPending]
    /\ pendingConfirmations = [p \in Honest |-> [q \in Users |-> NoNonce]]
    /\ sessionKeys = [p \in Honest |-> [q \in Users |-> NoKey]]
    /\ confirmedSessions = [p \in Honest |-> {}]
    /\ keyStore = [p \in Honest |-> [s \in SessionIds |-> NoKey]]
    /\ keyExchangeError = [p \in Honest |-> "none"]
    /\ keyExchanges = {}
    /\ keyConfirmations = {}
    /\ serverSessions = [s \in SessionIds |-> NoKey]
    /\ nextEph = 1
    /\ nextNonce = 1
    /\ initiators = Initiators
    /\ forged = 0
    /\ sent = {}
    /\ sentConfirmations = {}
    /\ derivations = {}
    /\ ev = NoEvent

\* Date.now() in milliseconds
NowMs == TimeStep + now

\* loadSessionKeyInternal(recipientId): the in-memory map first, then IndexedDB
loadSessionKeyInternal(memory, store, self, recipientId) ==
    IF memory[self][recipientId] # NoKey
    THEN memory[self][recipientId]
    ELSE store[self][getSessionId(self, recipientId)]

\* the value of a number field that a body does not have
Undefined == 0 - 1

\* POST /api/key-exchange: every field must be present; the exchange is stored and emitted
KeyExchangeFieldsPresent(m) ==
    /\ m.type # "none" /\ m.senderId # "none" /\ m.recipientId # "none"
    /\ m.senderPublicKey.owner # "none" /\ m.signature.signer # "none"
    /\ m.ephemeralPublicKey # Undefined
    /\ m.timestamp # 0 /\ m.timestamp # Undefined /\ m.nonce # 0

\* Math.abs(Date.now() - timestamp) > 5 * 60 * 1000; with timestamp undefined the
\* difference is NaN and the comparison false
ConfirmationExpired(nowMs, timestamp) ==
    IF timestamp = Undefined THEN FALSE ELSE TimestampExpired(nowMs, timestamp)

PostKeyExchange(m) == IF KeyExchangeFieldsPresent(m) THEN {m} ELSE {}

\* POST /api/key-confirmation: fields present and timestamp within 5 minutes
PostKeyConfirmation(c) ==
    IF /\ c.senderId # "none" /\ c.recipientId # "none" /\ c.confirmationHash.data # <<>>
       /\ c.confirmationNonce # 0 /\ c.originalNonce # 0
       /\ ~ConfirmationExpired(NowMs, c.timestamp)
    THEN {c} ELSE {}

\* createKeyConfirmation(recipientId, originalNonce) and the body the client posts
ConfirmationMessage(self, recipientId, sessionKey, originalNonce, confirmationNonce) ==
    [senderId |-> self, recipientId |-> recipientId,
     confirmationHash |->
        ConfirmationHmac(sessionKey, self, recipientId, originalNonce, confirmationNonce),
     confirmationNonce |-> confirmationNonce,
     originalNonce |-> originalNonce,
     timestamp |-> NowMs]

\* the string initiateKeyExchange / respondToKeyExchange sign
DataToSign(ephemeralPublicKey, counterpartyId, timestamp, nonce) ==
    <<ephemeralPublicKey, counterpartyId, timestamp, nonce>>

\* handleInitiateKeyExchange: initiateKeyExchange, setPendingKeyExchange, POST init
Initiate(p, q) ==
    /\ p \in initiators
    /\ LET eph == nextEph
           nonce == nextNonce
           msg == [type |-> "init", senderId |-> p, recipientId |-> q,
                   senderPublicKey |-> IdentityPublicKey(p),
                   ephemeralPublicKey |-> eph,
                   signature |-> signData(p, DataToSign(eph, q, NowMs, nonce)),
                   timestamp |-> NowMs, nonce |-> nonce]
       IN /\ pendingKeyExchange' = [pendingKeyExchange EXCEPT ![p] =
                 [recipientId |-> q, ephemeralPrivateKey |-> eph, nonce |-> nonce]]
          /\ keyExchanges' = keyExchanges \cup PostKeyExchange(msg)
          /\ sent' = sent \cup {msg}
          /\ ev' = [kind |-> "Initiated", party |-> p, peer |-> q, exchange |-> msg,
                    confirmation |-> NoConfirmationMsg]
    /\ keyExchangeError' = [keyExchangeError EXCEPT ![p] = "none"]
    /\ nextEph' = nextEph + 1
    /\ nextNonce' = nextNonce + 1
    /\ initiators' = initiators \ {p}
    /\ UNCHANGED <<guardVars, chatVars, idVars, cipherVars, sidVars, apiVars, switchVars, now, pendingConfirmations, sessionKeys, confirmedSessions, keyStore,
                   keyConfirmations, serverSessions, forged, sentConfirmations, derivations>>

\* key exchanges one client starts towards one recipient
MaxAttempts == 2

\* the Init messages p has sent to q so far
Attempts(p, q) == {m \in sent : m.type = "init" /\ m.senderId = p /\ m.recipientId = q}

\* handleInitiateKeyExchange pressed again: nothing in it looks at a pending exchange,
\* setPendingKeyExchange replaces whatever attempt was pending
handleInitiateKeyExchange(p, q) ==
    /\ Cardinality(Attempts(p, q)) < MaxAttempts
    /\ LET eph == nextEph
           nonce == nextNonce
           msg == [type |-> "init", senderId |-> p, recipientId |-> q,
                   senderPublicKey |-> IdentityPublicKey(p),
                   ephemeralPublicKey |-> eph,
                   signature |-> signData(p, DataToSign(eph, q, NowMs, nonce)),
                   timestamp |-> NowMs, nonce |-> nonce]
       IN /\ pendingKeyExchange' = [pendingKeyExchange EXCEPT ![p] =
                 [recipientId |-> q, ephemeralPrivateKey |-> eph, nonce |-> nonce]]
          /\ keyExchanges' = keyExchanges \cup PostKeyExchange(msg)
          /\ sent' = sent \cup {msg}
          /\ ev' = [kind |-> "Initiated", party |-> p, peer |-> q, exchange |-> msg,
                    confirmation |-> NoConfirmationMsg]
    /\ keyExchangeError' = [keyExchangeError EXCEPT ![p] = "none"]
    /\ nextEph' = nextEph + 1
    /\ nextNonce' = nextNonce + 1
    /\ initiators' = initiators \ {p}
    /\ UNCHANGED <<guardVars, chatVars, idVars, cipherVars, sidVars, apiVars, switchVars, now, pendingConfirmations,
                   sessionKeys, confirmedSessions, keyStore, keyConfirmations,
                   serverSessions, forged, sentConfirmations, derivations>>

\* a respondToKeyExchange that checks the timestamp and not the signature
RespondErrorTimestampOnly(self, data) ==
    IF TimestampExpired(NowMs, data.timestamp)
    THEN "Key exchange timestamp expired"
    ELSE "none"

\* the earlier respondToKeyExchange: the signed string is rebuilt with the sender's id
RespondErrorSenderId(self, data) ==
    IF TimestampExpired(NowMs, data.timestamp)
    THEN "Key exchange timestamp expired"
    ELSE IF ~verifySignature(data.senderPublicKey, data.signature,
                DataToSign(data.ephemeralPublicKey, data.senderId, data.timestamp, data.nonce))
    THEN "Invalid signature - possible MITM attack"
    ELSE "none"

\* respondToKeyExchange: the checks made before anything is derived
RespondError(self, data) ==
    IF TimestampExpired(NowMs, data.timestamp)
    THEN "Key exchange timestamp expired"
    ELSE IF ~verifySignature(data.senderPublicKey, data.signature,
                DataToSign(data.ephemeralPublicKey, self, data.timestamp, data.nonce))
    THEN "Invalid signature - possible MITM attack"
    ELSE "none"

\* a responder that names itself first in the HKDF info string
ResponderKeyOwnIdFirst(self, data, responsePrivateKey, responseNonce) ==
    deriveSessionKey(deriveSharedSecret(responsePrivateKey, data.ephemeralPublicKey),
                     <<data.nonce, responseNonce>>,
                     <<"session", self, data.senderId>>)

\* respondToKeyExchange: the responder's session key
ResponderKey(self, data, responsePrivateKey, responseNonce) ==
    deriveSessionKey(deriveSharedSecret(responsePrivateKey, data.ephemeralPublicKey),
                     <<data.nonce, responseNonce>>,
                     <<"session", data.senderId, self>>)

\* handleKeyExchange, init branch, when respondToKeyExchange throws
HandleInitReject(p, data) ==
    /\ data \in keyExchanges
    /\ data.type = "init" /\ data.recipientId = p
    /\ RespondError(p, data) # "none"
    /\ keyExchanges' = keyExchanges \ {data}
    /\ keyExchangeError' = [keyExchangeError EXCEPT ![p] = RespondError(p, data)]
    /\ ev' = [kind |-> "InitRejected", party |-> p, peer |-> data.senderId,
              exchange |-> data, confirmation |-> NoConfirmationMsg]
    /\ UNCHANGED <<guardVars, chatVars, idVars, cipherVars, sidVars, apiVars, switchVars, now, pendingKeyExchange, pendingConfirmations, sessionKeys,
                   confirmedSessions, keyStore, keyConfirmations, serverSessions, nextEph,
                   nextNonce, initiators, forged, sent, sentConfirmations, derivations>>

\* handleKeyExchange, init branch: respond, POST response, POST confirmation
HandleInit(p, data) ==
    /\ data \in keyExchanges
    /\ data.type = "init" /\ data.recipientId = p
    /\ RespondError(p, data) = "none"
    /\ LET eph == nextEph
           responseNonce == nextNonce
           confirmationNonce == nextNonce + 1
           sessionKey == ResponderKey(p, data, eph, responseNonce)
           response == [type |-> "response", senderId |-> p, recipientId |-> data.senderId,
                        senderPublicKey |-> IdentityPublicKey(p),
                        ephemeralPublicKey |-> eph,
                        signature |-> signData(p,
                            DataToSign(eph, data.senderId, NowMs, responseNonce)),
                        timestamp |-> NowMs, nonce |-> responseNonce]
           memory == [sessionKeys EXCEPT ![p][data.senderId] = sessionKey]
           store == [keyStore EXCEPT ![p][getSessionId(p, data.senderId)] = sessionKey]
           confirmation == ConfirmationMessage(p, data.senderId,
                               loadSessionKeyInternal(memory, store, p, data.senderId),
                               data.nonce, confirmationNonce)
       IN /\ keyStore' = store
          /\ sessionKeys' = memory
          /\ keyExchanges' = (keyExchanges \ {data}) \cup PostKeyExchange(response)
          /\ keyConfirmations' = keyConfirmations \cup PostKeyConfirmation(confirmation)
          /\ pendingConfirmations' =
                [pendingConfirmations EXCEPT ![p][data.senderId] = data.nonce]
          /\ sent' = sent \cup {response}
          /\ sentConfirmations' = sentConfirmations \cup {confirmation}
          /\ derivations' = derivations \cup
                {[party |-> p, role |-> "responder", initNonce |-> data.nonce,
                  responseNonce |-> responseNonce, key |-> sessionKey, exchange |-> data,
                  confirmation |-> confirmation]}
          /\ ev' = [kind |-> "InitAccepted", party |-> p, peer |-> data.senderId,
                    exchange |-> data, confirmation |-> confirmation]
    /\ nextEph' = nextEph + 1
    /\ nextNonce' = nextNonce + 2
    /\ UNCHANGED <<guardVars, chatVars, idVars, cipherVars, sidVars, apiVars, switchVars, now, pendingKeyExchange, confirmedSessions, keyExchangeError,
                   serverSessions, initiators, forged>>

\* completeKeyExchange: the checks made before anything is derived
CompleteError(self, data) ==
    IF TimestampExpired(NowMs, data.timestamp)
    THEN "Response timestamp expired"
    ELSE IF ~verifySignature(data.senderPublicKey, data.signature,
                DataToSign(data.ephemeralPublicKey, self, data.timestamp, data.nonce))
    THEN "Invalid response signature - possible MITM attack"
    ELSE "none"

\* completeKeyExchange: the initiator's session key
InitiatorKey(self, data, originalNonce, ephemeralPrivateKey) ==
    deriveSessionKey(deriveSharedSecret(ephemeralPrivateKey, data.ephemeralPublicKey),
                     <<originalNonce, data.nonce>>,
                     <<"session", self, data.senderId>>)

\* handleKeyExchange, response branch: a pending exchange with the sender is required
ResponseExpected(p, data) ==
    /\ pendingKeyExchange[p] # NoPending
    /\ pendingKeyExchange[p].recipientId = data.senderId

\* handleKeyExchange, response branch, no pending exchange or recipient mismatch: return
HandleResponseIgnore(p, data) ==
    /\ data \in keyExchanges
    /\ data.type = "response" /\ data.recipientId = p
    /\ ~ResponseExpected(p, data)
    /\ keyExchanges' = keyExchanges \ {data}
    /\ ev' = [kind |-> "ResponseIgnored", party |-> p, peer |-> data.senderId,
              exchange |-> data, confirmation |-> NoConfirmationMsg]
    /\ UNCHANGED <<guardVars, chatVars, idVars, cipherVars, sidVars, apiVars, switchVars, now, pendingKeyExchange, pendingConfirmations, sessionKeys,
                   confirmedSessions, keyStore, keyExchangeError, keyConfirmations,
                   serverSessions, nextEph, nextNonce, initiators, forged, sent,
                   sentConfirmations, derivations>>

\* handleKeyExchange, response branch, when completeKeyExchange throws
HandleResponseReject(p, data) ==
    /\ data \in keyExchanges
    /\ data.type = "response" /\ data.recipientId = p
    /\ ResponseExpected(p, data)
    /\ CompleteError(p, data) # "none"
    /\ keyExchanges' = keyExchanges \ {data}
    /\ keyExchangeError' = [keyExchangeError EXCEPT ![p] = CompleteError(p, data)]
    /\ ev' = [kind |-> "ResponseRejected", party |-> p, peer |-> data.senderId,
              exchange |-> data, confirmation |-> NoConfirmationMsg]
    /\ UNCHANGED <<guardVars, chatVars, idVars, cipherVars, sidVars, apiVars, switchVars, now, pendingKeyExchange, pendingConfirmations, sessionKeys,
                   confirmedSessions, keyStore, keyConfirmations, serverSessions, nextEph,
                   nextNonce, initiators, forged, sent, sentConfirmations, derivations>>

\* handleKeyExchange, response branch: complete, POST confirmation
HandleResponse(p, data) ==
    /\ data \in keyExchanges
    /\ data.type = "response" /\ data.recipientId = p
    /\ ResponseExpected(p, data)
    /\ CompleteError(p, data) = "none"
    /\ LET pending == pendingKeyExchange[p]
           sessionKey == InitiatorKey(p, data, pending.nonce, pending.ephemeralPrivateKey)
           memory == [sessionKeys EXCEPT ![p][data.senderId] = sessionKey]
           store == [keyStore EXCEPT ![p][getSessionId(p, data.senderId)] = sessionKey]
           confirmation == ConfirmationMessage(p, data.senderId,
                               loadSessionKeyInternal(memory, store, p, data.senderId),
                               pending.nonce, nextNonce)
       IN /\ keyStore' = store
          /\ sessionKeys' = memory
          /\ keyExchanges' = keyExchanges \ {data}
          /\ keyConfirmations' = keyConfirmations \cup PostKeyConfirmation(confirmation)
          /\ pendingConfirmations' =
                [pendingConfirmations EXCEPT ![p][data.senderId] = pending.nonce]
          /\ sentConfirmations' = sentConfirmations \cup {confirmation}
          /\ derivations' = derivations \cup
                {[party |-> p, role |-> "initiator", initNonce |-> pending.nonce,
                  responseNonce |-> data.nonce, key |-> sessionKey, exchange |-> data,
                  confirmation |-> confirmation]}
          /\ ev' = [kind |-> "ResponseAccepted", party |-> p, peer |-> data.senderId,
                    exchange |-> data, confirmation |-> confirmation]
    /\ nextNonce' = nextNonce + 1
    /\ UNCHANGED <<guardVars, chatVars, idVars, cipherVars, sidVars, apiVars, switchVars, now, pendingKeyExchange, confirmedSessions, keyExchangeError,
                   serverSessions, nextEph, initiators, forged, sent>>

\* verifyReceivedKeyConfirmation(senderId, hash, confirmationNonce, originalNonce)
verifyReceivedKeyConfirmation(self, data) ==
    verifyKeyConfirmation(loadSessionKeyInternal(sessionKeys, keyStore, self, data.senderId),
                          data.senderId, self, data.originalNonce, data.confirmationNonce,
                          data.confirmationHash)

\* handleKeyConfirmation when verifyReceivedKeyConfirmation throws: no session key
HandleConfirmNoKey(p, data) ==
    /\ data \in keyConfirmations
    /\ data.recipientId = p
    /\ loadSessionKeyInternal(sessionKeys, keyStore, p, data.senderId) = NoKey
    /\ keyConfirmations' = keyConfirmations \ {data}
    /\ keyExchangeError' = [keyExchangeError EXCEPT ![p] = "No session key for sender"]
    /\ ev' = [kind |-> "ConfirmNoKey", party |-> p, peer |-> data.senderId,
              exchange |-> NoExchange, confirmation |-> data]
    /\ UNCHANGED <<guardVars, chatVars, idVars, cipherVars, sidVars, apiVars, switchVars, now, pendingKeyExchange, pendingConfirmations, sessionKeys,
                   confirmedSessions, keyStore, keyExchanges, serverSessions, nextEph,
                   nextNonce, initiators, forged, sent, sentConfirmations, derivations>>

\* handleKeyConfirmation when the hash does not verify
HandleConfirmFailed(p, data) ==
    /\ data \in keyConfirmations
    /\ data.recipientId = p
    /\ loadSessionKeyInternal(sessionKeys, keyStore, p, data.senderId) # NoKey
    /\ ~verifyReceivedKeyConfirmation(p, data)
    /\ keyConfirmations' = keyConfirmations \ {data}
    /\ keyExchangeError' = [keyExchangeError EXCEPT ![p] =
          "Key confirmation failed - the other party may have a different session key"]
    /\ ev' = [kind |-> "ConfirmFailed", party |-> p, peer |-> data.senderId,
              exchange |-> NoExchange, confirmation |-> data]
    /\ UNCHANGED <<guardVars, chatVars, idVars, cipherVars, sidVars, apiVars, switchVars, now, pendingKeyExchange, pendingConfirmations, sessionKeys,
                   confirmedSessions, keyStore, keyExchanges, serverSessions, nextEph,
                   nextNonce, initiators, forged, sent, sentConfirmations, derivations>>

\* POST /api/session-key: sessionId = [userId1, userId2].sort().join(":"), upsert exportedKey
PostSessionKey(sessions, userId1, userId2, exportedKey) ==
    IF exportedKey # NoKey
    THEN [sessions EXCEPT ![getSessionId(userId1, userId2)] = exportedKey]
    ELSE sessions

\* handleKeyConfirmation when the hash verifies
HandleConfirm(p, data) ==
    /\ data \in keyConfirmations
    /\ data.recipientId = p
    /\ loadSessionKeyInternal(sessionKeys, keyStore, p, data.senderId) # NoKey
    /\ verifyReceivedKeyConfirmation(p, data)
    /\ keyConfirmations' = keyConfirmations \ {data}
    /\ confirmedSessions' = [confirmedSessions EXCEPT ![p] = @ \cup {data.senderId}]
    /\ pendingConfirmations' = [pendingConfirmations EXCEPT ![p][data.senderId] = NoNonce]
    /\ IF /\ pendingKeyExchange[p] # NoPending
          /\ pendingKeyExchange[p].recipientId = data.senderId
       THEN LET sessionKey ==
                    loadSessionKeyInternal(sessionKeys, keyStore, p, data.senderId)
            IN /\ pendingKeyExchange' = [pendingKeyExchange EXCEPT ![p] = NoPending]
               \* loadSessionKey caches the stored key in memory
               /\ sessionKeys' = [sessionKeys EXCEPT ![p][data.senderId] = sessionKey]
               /\ serverSessions' =
                     PostSessionKey(serverSessions, p, data.senderId, sessionKey)
       ELSE UNCHANGED <<pendingKeyExchange, sessionKeys, serverSessions>>
    /\ ev' = [kind |-> "ConfirmOk", party |-> p, peer |-> data.senderId,
              exchange |-> NoExchange, confirmation |-> data]
    /\ UNCHANGED <<guardVars, chatVars, idVars, cipherVars, sidVars, apiVars, switchVars, now, keyStore, keyExchangeError, keyExchanges, nextEph, nextNonce,
                   initiators, forged, sent, sentConfirmations, derivations>>

\* What the attacker does.  The relay's socket handlers key_exchange and
\* key_confirmation forward any event from any connection to the room it names.
AttackerFrame ==
    UNCHANGED <<guardVars, chatVars, idVars, cipherVars, sidVars, apiVars, switchVars, now, pendingKeyExchange, pendingConfirmations, sessionKeys,
                confirmedSessions, keyStore, keyExchangeError, serverSessions, nextEph,
                nextNonce, initiators, sent, sentConfirmations, derivations, ev>>

\* an exchange of an honest client, its ephemeral public key replaced, the rest as sent
TamperedCopy(m) == [m EXCEPT !.ephemeralPublicKey = MalloryEph]

TamperEphemeralKey(m) ==
    /\ forged < MaxForged
    /\ m \in sent \cap keyExchanges
    /\ keyExchanges' = (keyExchanges \ {m}) \cup {TamperedCopy(m)}
    /\ forged' = forged + 1
    /\ UNCHANGED keyConfirmations
    /\ AttackerFrame

\* ephemeral key, identity public key and signature replaced by the attacker's own
SubstitutedCopy(m) ==
    [m EXCEPT !.ephemeralPublicKey = MalloryEph,
              !.senderPublicKey = IdentityPublicKey(Mallory),
              !.signature = signData(Mallory,
                  DataToSign(MalloryEph, m.recipientId, m.timestamp, m.nonce))]

SubstituteKeys(m) ==
    /\ forged < MaxForged
    /\ m \in sent \cap keyExchanges
    /\ keyExchanges' = (keyExchanges \ {m}) \cup {SubstitutedCopy(m)}
    /\ forged' = forged + 1
    /\ UNCHANGED keyConfirmations
    /\ AttackerFrame

\* an exchange sent again as it was
ReplayExchange(m) ==
    /\ forged < MaxForged
    /\ m \in sent /\ m \notin keyExchanges
    /\ keyExchanges' = keyExchanges \cup {m}
    /\ forged' = forged + 1
    /\ UNCHANGED keyConfirmations
    /\ AttackerFrame

\* a confirmation in the name of an honest client, computed under a key of the attacker
ForgedCopy(c) ==
    [c EXCEPT !.confirmationHash = ConfirmationHmac(MalloryKey, c.senderId, c.recipientId,
                                       c.originalNonce, c.confirmationNonce)]

ForgeConfirmation(c) ==
    /\ forged < MaxForged
    /\ c \in sentConfirmations \cap keyConfirmations
    /\ keyConfirmations' = (keyConfirmations \ {c}) \cup {ForgedCopy(c)}
    /\ forged' = forged + 1
    /\ UNCHANGED keyExchanges
    /\ AttackerFrame

\* a confirmation sent again as it was
ReplayConfirmation(c) ==
    /\ forged < MaxForged
    /\ c \in sentConfirmations /\ c \notin keyConfirmations
    /\ keyConfirmations' = keyConfirmations \cup {c}
    /\ forged' = forged + 1
    /\ UNCHANGED keyExchanges
    /\ AttackerFrame

\* an exchange of an honest client sent on to another client: recipientId rewritten,
\* senderId as the attacker likes, everything signed left as it was
RedirectedCopy(m, senderId, recipientId) ==
    [m EXCEPT !.senderId = senderId, !.recipientId = recipientId]

RedirectExchange(m, senderId, recipientId) ==
    /\ forged < MaxForged
    /\ m \in sent
    /\ recipientId # m.recipientId
    /\ keyExchanges' = keyExchanges \cup {RedirectedCopy(m, senderId, recipientId)}
    /\ forged' = forged + 1
    /\ UNCHANGED keyConfirmations
    /\ AttackerFrame

\* the fields the bodies of the two handshake routes are made of
ExchangeFields == {"type", "senderId", "recipientId", "senderPublicKey",
                   "ephemeralPublicKey", "signature", "timestamp", "nonce"}
ConfirmationFields == {"senderId", "recipientId", "confirmationHash", "confirmationNonce",
                       "originalNonce", "timestamp"}

\* the exchange m with one field left out
ExchangeWithout(m, field) ==
    CASE field = "type" -> [m EXCEPT !.type = "none"]
      [] field = "senderId" -> [m EXCEPT !.senderId = "none"]
      [] field = "recipientId" -> [m EXCEPT !.recipientId = "none"]
      [] field = "senderPublicKey" -> [m EXCEPT !.senderPublicKey = [owner |-> "none"]]
      [] field = "ephemeralPublicKey" -> [m EXCEPT !.ephemeralPublicKey = Undefined]
      [] field = "signature" -> [m EXCEPT !.signature = [signer |-> "none", data |-> <<>>]]
      [] field = "timestamp" -> [m EXCEPT !.timestamp = Undefined]
      [] field = "nonce" -> [m EXCEPT !.nonce = 0]

\* the confirmation c with one field left out
ConfirmationWithout(c, field) ==
    CASE field = "senderId" -> [c EXCEPT !.senderId = "none"]
      [] field = "recipientId" -> [c EXCEPT !.recipientId = "none"]
      [] field = "confirmationHash" ->
            [c EXCEPT !.confirmationHash = [key |-> NoKey, data |-> <<>>]]
      [] field = "confirmationNonce" -> [c EXCEPT !.confirmationNonce = 0]
      [] field = "originalNonce" -> [c EXCEPT !.originalNonce = 0]
      [] field = "timestamp" -> [c EXCEPT !.timestamp = Undefined]

\* POST /api/key-exchange with a body that lacks a field
PostIncompleteExchange(m, field) ==
    /\ forged < MaxForged
    /\ keyExchanges' = keyExchanges \cup PostKeyExchange(ExchangeWithout(m, field))
    /\ forged' = forged + 1
    /\ UNCHANGED keyConfirmations
    /\ AttackerFrame

\* POST /api/key-confirmation with a body that lacks a field
PostIncompleteConfirmation(c, field) ==
    /\ forged < MaxForged
    /\ keyConfirmations' = keyConfirmations \cup
                               PostKeyConfirmation(ConfirmationWithout(c, field))
    /\ forged' = forged + 1
    /\ UNCHANGED keyExchanges
    /\ AttackerFrame

\* encrypt(recipientId, plaintext): loadSessionKey, which caches a stored key in memory,
\* then AES-GCM under that key; without a key it throws and nothing changes
encrypt(p, recipientId) ==
    /\ loadSessionKeyInternal(sessionKeys, keyStore, p, recipientId) # NoKey
    /\ sessionKeys' = [sessionKeys EXCEPT ![p][recipientId] =
                          loadSessionKeyInternal(sessionKeys, keyStore, p, recipientId)]
    /\ ev' = [kind |-> "Encrypted", party |-> p, peer |-> recipientId,
              exchange |-> NoExchange, confirmation |-> NoConfirmationMsg]
    /\ UNCHANGED <<guardVars, chatVars, idVars, cipherVars, sidVars, apiVars, switchVars, now, pendingKeyExchange, pendingConfirmations,
                   confirmedSessions, keyStore, keyExchangeError, keyExchanges,
                   keyConfirmations, serverSessions, nextEph, nextNonce, initiators, forged,
                   sent, sentConfirmations, derivations>>

\* ------------------------------------------------- AES-GCM, base64 and text
\* the sixteen bytes of a 128-bit tag
TagLength == 16

\* the code units a JavaScript string is made of: a letter, the byte order mark
\* U+FEFF, a high and a low surrogate, the replacement character U+FFFD
CodeUnits == {"a", "BOM", "HI", "LO", "REP"}

Utf8OfLetter == <<97>>
Utf8OfBom == <<239, 187, 191>>
Utf8OfReplacement == <<239, 191, 189>>
\* U+10000, the character the pair HI LO stands for
Utf8OfPair == <<240, 144, 128, 128>>

\* new TextEncoder().encode(text): UTF-8; a surrogate without its partner is
\* encoded as U+FFFD
RECURSIVE TextEncode(_)
TextEncode(text) ==
    IF text = <<>> THEN <<>>
    ELSE IF Head(text) = "a" THEN Utf8OfLetter \o TextEncode(Tail(text))
    ELSE IF Head(text) = "BOM" THEN Utf8OfBom \o TextEncode(Tail(text))
    ELSE IF Head(text) = "HI" /\ Len(text) >= 2 /\ text[2] = "LO"
    THEN Utf8OfPair \o TextEncode(Tail(Tail(text)))
    ELSE Utf8OfReplacement \o TextEncode(Tail(text))

StartsWith(bytes, prefix) ==
    /\ Len(bytes) >= Len(prefix)
    /\ SubSeq(bytes, 1, Len(prefix)) = prefix

DropBytes(bytes, n) == SubSeq(bytes, n + 1, Len(bytes))

\* the UTF-8 decoder: a malformed byte becomes U+FFFD
RECURSIVE Utf8Decode(_)
Utf8Decode(bytes) ==
    IF bytes = <<>> THEN <<>>
    ELSE IF StartsWith(bytes, Utf8OfLetter)
    THEN <<"a">> \o Utf8Decode(DropBytes(bytes, 1))
    ELSE IF StartsWith(bytes, Utf8OfBom)
    THEN <<"BOM">> \o Utf8Decode(DropBytes(bytes, 3))
    ELSE IF StartsWith(bytes, Utf8OfReplacement)
    THEN <<"REP">> \o Utf8Decode(DropBytes(bytes, 3))
    ELSE IF StartsWith(bytes, Utf8OfPair)
    THEN <<"HI", "LO">> \o Utf8Decode(DropBytes(bytes, 4))
    ELSE <<"REP">> \o Utf8Decode(DropBytes(bytes, 1))

\* new TextDecoder().decode(bytes): ignoreBOM is false, so a byte order mark at the
\* start of the input is dropped
TextDecode(bytes) ==
    IF StartsWith(bytes, Utf8OfBom)
    THEN Utf8Decode(DropBytes(bytes, 3))
    ELSE Utf8Decode(bytes)

Min(a, b) == IF a < b THEN a ELSE b
Max(a, b) == IF a > b THEN a ELSE b

\* array.slice(0, -n)
SliceHead(array, n) == SubSeq(array, 1, Max(Len(array) - n, 0))
\* array.slice(-n)
SliceTail(array, n) == SubSeq(array, Max(Len(array) - n, 0) + 1, Len(array))

\* arrayBufferToBase64: btoa takes the bytes three at a time; the last group may
\* hold one or two and is padded
arrayBufferToBase64(bytes) ==
    [g \in 1 .. ((Len(bytes) + 2) \div 3) |->
        SubSeq(bytes, 3 * g - 2, Min(3 * g, Len(bytes)))]

\* base64ToArrayBuffer: atob gives the bytes of each group back
RECURSIVE base64ToArrayBuffer(_)
base64ToArrayBuffer(base64) ==
    IF base64 = <<>> THEN <<>>
    ELSE Head(base64) \o base64ToArrayBuffer(Tail(base64))

\* crypto.subtle.encrypt with AES-GCM and tagLength 128: one byte of ciphertext for
\* each byte of data, then the tag, which depends on key, iv and all the data
GcmEncrypt(key, iv, data) ==
    [i \in 1 .. Len(data) |-> [t |-> "c", k |-> key, iv |-> iv, i |-> i, b |-> <<data[i]>>]]
    \o [j \in 1 .. TagLength |-> [t |-> "t", k |-> key, iv |-> iv, i |-> j, b |-> data]]

\* the data a ciphertext would decrypt to if its tag were right
GcmData(combined) ==
    [i \in 1 .. Len(SliceHead(combined, TagLength)) |->
        IF combined[i].b = <<>> THEN 0 ELSE combined[i].b[1]]

DecryptionFailed == [ok |-> FALSE, content |-> <<>>]

\* a decryption that does not verify the tag
GcmDecryptUnverified(key, iv, combined) ==
    [ok |-> TRUE, content |-> GcmData(combined)]

\* crypto.subtle.decrypt: the data when the tag verifies under key and iv, an
\* OperationError otherwise
GcmDecrypt(key, iv, combined) ==
    IF combined = GcmEncrypt(key, iv, GcmData(combined))
    THEN [ok |-> TRUE, content |-> GcmData(combined)]
    ELSE DecryptionFailed

\* encryptMessage(sessionKey, plaintext) with the iv generateIV returned
encryptMessage(sessionKey, iv, plaintext) ==
    LET encryptedArray == GcmEncrypt(sessionKey, iv, TextEncode(plaintext))
    IN [ciphertext |-> arrayBufferToBase64(SliceHead(encryptedArray, TagLength)),
        iv |-> arrayBufferToBase64(iv),
        authTag |-> arrayBufferToBase64(SliceTail(encryptedArray, TagLength))]

\* decryptMessage(sessionKey, ciphertext, iv, authTag)
decryptMessage(sessionKey, ciphertext, iv, authTag) ==
    LET combined == base64ToArrayBuffer(ciphertext) \o base64ToArrayBuffer(authTag)
        decrypted == GcmDecrypt(sessionKey, base64ToArrayBuffer(iv), combined)
    IN IF decrypted.ok
       THEN [ok |-> TRUE, content |-> TextDecode(decrypted.content)]
       ELSE DecryptionFailed

\* encryptFile(sessionKey, fileData) with the iv generateIV returned
encryptFile(sessionKey, iv, fileData) ==
    LET encryptedArray == GcmEncrypt(sessionKey, iv, fileData)
    IN [ciphertext |-> arrayBufferToBase64(SliceHead(encryptedArray, TagLength)),
        iv |-> arrayBufferToBase64(iv),
        authTag |-> arrayBufferToBase64(SliceTail(encryptedArray, TagLength))]

\* decryptFile(sessionKey, encryptedData, iv, authTag)
decryptFile(sessionKey, encryptedData, iv, authTag) ==
    LET combined == base64ToArrayBuffer(encryptedData) \o base64ToArrayBuffer(authTag)
    IN GcmDecrypt(sessionKey, base64ToArrayBuffer(iv), combined)

\* the longest text and the longest file encrypted
MaxLen == 2

\* the texts a user may type and the files a user may pick
RECURSIVE SeqsUpTo(_, _)
SeqsUpTo(S, n) ==
    IF n = 0 THEN {<<>>}
    ELSE SeqsUpTo(S, n - 1) \cup
         {Append(x, c) : x \in {y \in SeqsUpTo(S, n - 1) : Len(y) = n - 1}, c \in S}

Texts == SeqsUpTo(CodeUnits \ {"REP"}, MaxLen)
FileBytes == {0, 239, 255}
Files == SeqsUpTo(FileBytes, MaxLen)

\* the ivs generateIV returns, twelve random bytes each
IV(n) == [i \in 1 .. 12 |-> n]
IVs == {IV(1), IV(2)}

\* the session keys of the clients
CipherKeys ==
    {MalloryKey, deriveSessionKey(deriveSharedSecret(1, 2), <<1, 2>>, <<"a1", "b1">>)}

NoPayload == [kind |-> "none", key |-> NoKey, content |-> <<>>]
NoEnvelope == [ciphertext |-> <<>>, iv |-> <<>>, authTag |-> <<>>]
NotOpened == [ok |-> FALSE, content |-> <<"pending">>]
\* ciphertext, iv and authTag of a request body, present and not looked into
OpaqueEnvelope == [ciphertext |-> <<<<0>>>>, iv |-> <<<<0>>>>, authTag |-> <<<<0>>>>]

CipherInit ==
    /\ original = NoPayload
    /\ envelope = NoEnvelope
    /\ opened = NotOpened

CipherFrame == UNCHANGED <<now, hsVars, guardVars, chatVars, idVars, sidVars, apiVars, switchVars>>

\* a text is encrypted under a session key
SealMessage(sessionKey, iv, plaintext) ==
    /\ original' = [kind |-> "message", key |-> sessionKey, content |-> plaintext]
    /\ envelope' = encryptMessage(sessionKey, iv, plaintext)
    /\ opened' = NotOpened
    /\ CipherFrame

\* a file is encrypted under a session key
SealFile(sessionKey, iv, fileData) ==
    /\ original' = [kind |-> "file", key |-> sessionKey, content |-> fileData]
    /\ envelope' = encryptFile(sessionKey, iv, fileData)
    /\ opened' = NotOpened
    /\ CipherFrame

\* what encryption returned is decrypted under the same key
Open ==
    /\ original.kind # "none"
    /\ opened = NotOpened
    /\ opened' = IF original.kind = "message"
                 THEN decryptMessage(original.key, envelope.ciphertext, envelope.iv,
                                     envelope.authTag)
                 ELSE decryptFile(original.key, envelope.ciphertext, envelope.iv,
                                  envelope.authTag)
    /\ UNCHANGED <<original, envelope>>
    /\ CipherFrame

\* ------------------------------------------------- the relay's message guard
\* the relay handlers that admit a message: POST /api/messages of the Express server,
\* POST of the Next route, the socket server's encrypted_message
Handlers == {"express", "route", "socket"}

\* admission requests the relay is given
Requests == {"r1", "r2"}

\* what the requests carry
Pairs == {<<"a1", "b1">>, <<"b1", "a1">>}
GuardNonces == {"n1", "n2"}
SequenceNumbers == {1, 2}
\* a request body without a timestamp carries NoTimestamp
NoTimestamp == 0 * TimeStep
ClientTimestamps == {NoTimestamp, TimeStep, TimeStep + 1, 2 * TimeStep}

IdleRequest ==
    [handler |-> "none", pc |-> "idle", senderId |-> "none", recipientId |-> "none",
     nonce |-> "none", sequenceNumber |-> 0, timestamp |-> NoTimestamp,
     supplied |-> NoTimestamp, arrivedAt |-> NoTimestamp, seen |-> 0, error |-> "none",
     body |-> NoEnvelope]

GuardInit ==
    /\ messages = <<>>
    /\ nonces = {}
    /\ requests = [r \in Requests |-> IdleRequest]
    /\ emitted = {}

\* r2 arrives after r1
MayArrive(r) == /\ requests[r].pc = "idle"
                /\ r = "r2" => requests["r1"].pc # "idle"

\* the request as it arrives; supplied is the timestamp in its body, arrivedAt the
\* relay's clock and seen the number of messages admitted when it arrived
Arrived(handler, pair, nonce, sequenceNumber, timestamp, pc, error) ==
    [handler |-> handler, pc |-> pc, senderId |-> pair[1], recipientId |-> pair[2],
     nonce |-> nonce, sequenceNumber |-> sequenceNumber, timestamp |-> timestamp,
     supplied |-> timestamp, arrivedAt |-> NowMs, seen |-> Len(messages),
     error |-> error, body |-> OpaqueEnvelope]

GuardFrame == UNCHANGED <<now, hsVars, chatVars, idVars, cipherVars, sidVars, apiVars, switchVars>>

\* app.post("/api/messages") up to its first database call: the required fields and
\* the five-minute window
ExpressArrival(pair, nonce, sequenceNumber, timestamp) ==
    IF timestamp = NoTimestamp
    THEN Arrived("express", pair, nonce, sequenceNumber, timestamp, "rejected",
                 "Missing required fields")
    ELSE IF TimestampExpired(NowMs, timestamp)
    THEN Arrived("express", pair, nonce, sequenceNumber, timestamp, "rejected",
                 "Message timestamp outside allowed window")
    ELSE Arrived("express", pair, nonce, sequenceNumber, timestamp, "findNonce", "none")

\* a request with any body reaches app.post("/api/messages")
ExpressReceive(r, pair, nonce, sequenceNumber, timestamp) ==
    /\ MayArrive(r)
    /\ requests' = [requests EXCEPT ![r] =
          ExpressArrival(pair, nonce, sequenceNumber, timestamp)]
    /\ UNCHANGED <<messages, nonces, emitted>>
    /\ GuardFrame

\* messagesCollection.findOne({ nonce, senderId, recipientId })
existingWithSameNonce(q) ==
    \E i \in 1 .. Len(messages) :
        /\ messages[i].nonce = q.nonce
        /\ messages[i].senderId = q.senderId
        /\ messages[i].recipientId = q.recipientId

\* app.post("/api/messages"): the duplicate-nonce lookup and what follows it
ExpressFindNonce(r) ==
    /\ requests[r].handler = "express" /\ requests[r].pc = "findNonce"
    /\ requests' = [requests EXCEPT ![r] =
          IF existingWithSameNonce(requests[r])
          THEN [@ EXCEPT !.pc = "rejected",
                         !.error = "Replay attack detected: duplicate nonce"]
          ELSE [@ EXCEPT !.pc = "findLast"]]
    /\ UNCHANGED <<messages, nonces, emitted>>
    /\ GuardFrame

\* find({ senderId, recipientId }).sort({ sequenceNumber: -1 }).limit(1): the candidates
LastMessages(q) ==
    {i \in 1 .. Len(messages) :
        /\ messages[i].senderId = q.senderId
        /\ messages[i].recipientId = q.recipientId
        /\ \A j \in 1 .. Len(messages) :
              (messages[j].senderId = q.senderId /\ messages[j].recipientId = q.recipientId)
                  => messages[j].sequenceNumber <= messages[i].sequenceNumber}

\* the sequence and timestamp checks against lastMessage
OrderError(q, lastMessage) ==
    IF q.sequenceNumber <= lastMessage.sequenceNumber
    THEN "Replay attack detected: invalid sequence number"
    ELSE IF q.timestamp <= lastMessage.timestamp
    THEN "Replay attack detected: invalid timestamp ordering"
    ELSE "none"

\* the document the handlers insert; its id is fresh for each request
Message(r, q) ==
    [id |-> r, senderId |-> q.senderId, recipientId |-> q.recipientId, nonce |-> q.nonce,
     sequenceNumber |-> q.sequenceNumber, timestamp |-> q.timestamp,
     ciphertext |-> q.body.ciphertext, iv |-> q.body.iv, authTag |-> q.body.authTag]

\* io.to(recipientId).emit("new_message", payload), in the course of request r
NewMessage(r, recipientId, payload) ==
    [request |-> r, to |-> recipientId, payload |-> payload]

\* a guard that stores and emits the message before it compares it with the last one
ExpressFindLastAfterInsert(r) ==
    /\ requests[r].handler = "express" /\ requests[r].pc = "findLast"
    /\ messages' = Append(messages, Message(r, requests[r]))
    /\ emitted' = emitted \cup {NewMessage(r, requests[r].recipientId,
                                            Message(r, requests[r]))}
    /\ IF LastMessages(requests[r]) = {}
       THEN requests' = [requests EXCEPT ![r].pc = "accepted"]
       ELSE \E i \in LastMessages(requests[r]) :
               requests' = [requests EXCEPT ![r] =
                  IF OrderError(requests[r], messages[i]) # "none"
                  THEN [@ EXCEPT !.pc = "rejected",
                                 !.error = OrderError(requests[r], messages[i])]
                  ELSE [@ EXCEPT !.pc = "accepted"]]
    /\ UNCHANGED nonces
    /\ GuardFrame

\* app.post("/api/messages"): the lookup of the last message and the checks against it
ExpressFindLast(r) ==
    /\ requests[r].handler = "express" /\ requests[r].pc = "findLast"
    /\ IF LastMessages(requests[r]) = {}
       THEN requests' = [requests EXCEPT ![r].pc = "insert"]
       ELSE \E i \in LastMessages(requests[r]) :
               requests' = [requests EXCEPT ![r] =
                  IF OrderError(requests[r], messages[i]) # "none"
                  THEN [@ EXCEPT !.pc = "rejected",
                                 !.error = OrderError(requests[r], messages[i])]
                  ELSE [@ EXCEPT !.pc = "insert"]]
    /\ UNCHANGED <<messages, nonces, emitted>>
    /\ GuardFrame

\* app.post("/api/messages"): insertOne, emit new_message, res.json(message)
ExpressInsert(r) ==
    /\ requests[r].handler = "express" /\ requests[r].pc = "insert"
    /\ messages' = Append(messages, Message(r, requests[r]))
    /\ emitted' = emitted \cup {NewMessage(r, requests[r].recipientId,
                                            Message(r, requests[r]))}
    /\ requests' = [requests EXCEPT ![r].pc = "accepted"]
    /\ UNCHANGED nonces
    /\ GuardFrame

\* POST of the Next route up to its first store call: the required fields, among which
\* there is no timestamp; a timestamp in the body is not read
RouteReceive(r, pair, nonce, sequenceNumber, timestamp) ==
    /\ MayArrive(r)
    /\ requests' = [requests EXCEPT ![r] =
          Arrived("route", pair, nonce, sequenceNumber, timestamp, "isNonceUsed", "none")]
    /\ UNCHANGED <<messages, nonces, emitted>>
    /\ GuardFrame

\* socket.on("encrypted_message") up to its first store call: nothing is validated
SocketReceive(r, pair, nonce, sequenceNumber) ==
    /\ MayArrive(r)
    /\ requests' = [requests EXCEPT ![r] =
          Arrived("socket", pair, nonce, sequenceNumber, NoTimestamp, "isNonceUsed", "none")]
    /\ UNCHANGED <<messages, nonces, emitted>>
    /\ GuardFrame

\* store.isNonceUsed(nonce): countDocuments({ nonce }) > 0
isNonceUsed(nonce) == nonce \in nonces

\* what socket.io sends for the promise store.addMessage returns: an empty object
PromisePayload ==
    [id |-> "none", senderId |-> "none", recipientId |-> "none", nonce |-> "none",
     sequenceNumber |-> 0, timestamp |-> NoTimestamp,
     ciphertext |-> <<>>, iv |-> <<>>, authTag |-> <<>>]

\* the route or the socket handler at its isNonceUsed call; once the socket handler
\* knows the nonce is new it builds the message, with timestamp Date.now(), calls
\* markNonceUsed and addMessage without awaiting them and emits new_message at once
StoreIsNonceUsed(r) ==
    /\ requests[r].handler \in {"route", "socket"} /\ requests[r].pc = "isNonceUsed"
    /\ requests' = [requests EXCEPT ![r] =
          IF isNonceUsed(requests[r].nonce)
          THEN [@ EXCEPT !.pc = "rejected",
                         !.error = "Replay attack detected: Nonce already used"]
          ELSE IF requests[r].handler = "socket"
          THEN [@ EXCEPT !.pc = "markNonceUsed", !.timestamp = NowMs]
          ELSE [@ EXCEPT !.pc = "markNonceUsed"]]
    /\ emitted' = IF requests[r].handler = "socket" /\ ~isNonceUsed(requests[r].nonce)
                  THEN emitted \cup {NewMessage(r, requests[r].recipientId, PromisePayload)}
                  ELSE emitted
    /\ UNCHANGED <<messages, nonces>>
    /\ GuardFrame

\* store.markNonceUsed(nonce): insertOne into nonces; the route builds the message, with
\* timestamp Date.now(), when this call returns
StoreMarkNonceUsed(r) ==
    /\ requests[r].handler \in {"route", "socket"} /\ requests[r].pc = "markNonceUsed"
    /\ nonces' = nonces \cup {requests[r].nonce}
    /\ requests' = [requests EXCEPT ![r] =
          IF requests[r].handler = "route"
          THEN [@ EXCEPT !.pc = "addMessage", !.timestamp = NowMs]
          ELSE [@ EXCEPT !.pc = "addMessage"]]
    /\ UNCHANGED <<messages, emitted>>
    /\ GuardFrame

\* store.addMessage(message): insertOne into messages
StoreAddMessage(r) ==
    /\ requests[r].handler \in {"route", "socket"} /\ requests[r].pc = "addMessage"
    /\ messages' = Append(messages, Message(r, requests[r]))
    /\ requests' = [requests EXCEPT ![r].pc = "accepted"]
    /\ UNCHANGED <<nonces, emitted>>
    /\ GuardFrame

\* handleSendMessage: encrypt for the selected user, then POST /api/messages with
\* sequenceNumber messages.length and no timestamp field; the message joins the list
\* only when the response is ok, which one without timestamp, turned away with status
\* 400 before any database call, is not
handleSendMessage(p, q, r, nonce) ==
    /\ MayArrive(r)
    /\ loadSessionKeyInternal(sessionKeys, keyStore, p, q) # NoKey
    /\ sessionKeys' = [sessionKeys EXCEPT ![p][q] =
                          loadSessionKeyInternal(sessionKeys, keyStore, p, q)]
    /\ requests' = [requests EXCEPT ![r] =
          ExpressArrival(<<p, q>>, nonce, Len(messageList[p]), NoTimestamp)]
    /\ ev' = [kind |-> "Sent", party |-> p, peer |-> q,
              exchange |-> NoExchange, confirmation |-> NoConfirmationMsg]
    /\ UNCHANGED <<messages, nonces, emitted, chatVars, idVars, cipherVars, sidVars, apiVars, switchVars, now, pendingKeyExchange,
                   pendingConfirmations, confirmedSessions, keyStore, keyExchangeError,
                   keyExchanges, keyConfirmations, serverSessions, nextEph, nextNonce,
                   initiators, forged, sent, sentConfirmations, derivations>>

\* socket.on("send_message") of the Express server: whatever a connection sends is
\* emitted as new_message to the room it names; nothing is looked up or stored
RelaySendMessage(r, pair, nonce, sequenceNumber, timestamp) ==
    /\ MayArrive(r)
    /\ requests' = [requests EXCEPT ![r] =
          Arrived("relay", pair, nonce, sequenceNumber, timestamp, "relayed", "none")]
    /\ emitted' = emitted \cup
          {NewMessage(r, pair[2],
                      Message(r, Arrived("relay", pair, nonce, sequenceNumber, timestamp,
                                         "relayed", "none")))}
    /\ UNCHANGED <<messages, nonces>>
    /\ GuardFrame

\* socket.on("send_message") with the ciphertext, iv and authTag the data carries
RelaySendEnvelope(r, pair, nonce, body) ==
    /\ MayArrive(r)
    /\ LET data == [Arrived("relay", pair, nonce, 0, NowMs, "relayed", "none")
                        EXCEPT !.body = body]
       IN /\ requests' = [requests EXCEPT ![r] = data]
          /\ emitted' = emitted \cup {NewMessage(r, pair[2], Message(r, data))}
    /\ UNCHANGED <<messages, nonces>>
    /\ GuardFrame

\* storeSessionKeyForUser(recipientId, exportedKey): the key goes to IndexedDB and to
\* the in-memory map, and the session is marked confirmed
storeSessionKeyForUser(p, recipientId, exportedKey) ==
    /\ keyStore' = [keyStore EXCEPT ![p][getSessionId(p, recipientId)] = exportedKey]
    /\ sessionKeys' = [sessionKeys EXCEPT ![p][recipientId] = exportedKey]
    /\ confirmedSessions' = [confirmedSessions EXCEPT ![p] = @ \cup {recipientId}]

\* checkAndLoadSessionKey(userId, recipientId), run when a user is selected:
\* GET /api/session-key, and when the relay has a key for the pair, install it
checkAndLoadSessionKey(p, q) ==
    /\ serverSessions[getSessionId(p, q)] # NoKey
    /\ storeSessionKeyForUser(p, q, serverSessions[getSessionId(p, q)])
    /\ ev' = [kind |-> "KeyLoaded", party |-> p, peer |-> q,
              exchange |-> NoExchange, confirmation |-> NoConfirmationMsg]
    /\ UNCHANGED <<guardVars, chatVars, idVars, cipherVars, sidVars, apiVars, switchVars, now, pendingKeyExchange, pendingConfirmations,
                   keyExchangeError, keyExchanges, keyConfirmations, serverSessions,
                   nextEph, nextNonce, initiators, forged, sent, sentConfirmations,
                   derivations>>

\* POST /api/session-key from the attacker: the route takes any body from any caller
PostForgedSessionKey(userId1, userId2) ==
    /\ forged < MaxForged
    /\ serverSessions' = PostSessionKey(serverSessions, userId1, userId2, MalloryKey)
    /\ forged' = forged + 1
    /\ UNCHANGED <<guardVars, chatVars, idVars, cipherVars, sidVars, apiVars, switchVars, now, pendingKeyExchange, pendingConfirmations,
                   sessionKeys, confirmedSessions, keyStore, keyExchangeError,
                   keyExchanges, keyConfirmations, nextEph, nextNonce, initiators, sent,
                   sentConfirmations, derivations, ev>>

\* ------------------------------------------------- the open chat
ChatFrame == UNCHANGED <<now, hsVars, guardVars, idVars, cipherVars, sidVars, apiVars, switchVars>>

\* the effect on selectedUser?.id: setMessages([]) when another user is selected
clearOnUserSwitch(p) ==
    /\ messageList[p] # <<>>
    /\ messageList' = [messageList EXCEPT ![p] = <<>>]
    /\ ChatFrame

\* where a document goes in a list already sorted by timestamp; equal timestamps
\* stay in insertion order
RECURSIVE InsertByTimestamp(_, _)
InsertByTimestamp(msg, list) ==
    IF list = <<>> THEN <<msg>>
    ELSE IF msg.timestamp < Head(list).timestamp THEN <<msg>> \o list
    ELSE <<Head(list)>> \o InsertByTimestamp(msg, Tail(list))

\* .sort({ timestamp: 1 })
RECURSIVE SortByTimestamp(_)
SortByTimestamp(list) ==
    IF list = <<>> THEN <<>>
    ELSE InsertByTimestamp(list[Len(list)], SortByTimestamp(SubSeq(list, 1, Len(list) - 1)))

InConversation(msg, userId, recipientId) ==
    \/ msg.senderId = userId /\ msg.recipientId = recipientId
    \/ msg.senderId = recipientId /\ msg.recipientId = userId

\* app.get("/api/messages"): the messages of the two users in both directions
GetMessages(userId, recipientId) ==
    SortByTimestamp(SelectSeq(messages, LAMBDA msg : InConversation(msg, userId, recipientId)))

\* decrypt(senderId, ciphertext, iv, authTag): loadSessionKey, then decryptMessage;
\* it throws without a key and when the tag does not verify
decrypt(p, senderId, ciphertext, iv, authTag) ==
    IF loadSessionKeyInternal(sessionKeys, keyStore, p, senderId) = NoKey
    THEN DecryptionFailed
    ELSE decryptMessage(loadSessionKeyInternal(sessionKeys, keyStore, p, senderId),
                        ciphertext, iv, authTag)

\* { ...msg, content, decrypted: true } or { ...msg, decrypted: false, error }
DecryptedMessage(msg, result) ==
    [id |-> msg.id, senderId |-> msg.senderId, recipientId |-> msg.recipientId,
     nonce |-> msg.nonce, sequenceNumber |-> msg.sequenceNumber,
     timestamp |-> msg.timestamp, ciphertext |-> msg.ciphertext, iv |-> msg.iv,
     authTag |-> msg.authTag, decrypted |-> result.ok, content |-> result.content]

\* what a handler that decrypts leaves alone; loadSessionKey puts a stored key into
\* the in-memory map
DecryptFrame ==
    UNCHANGED <<now, guardVars, idVars, cipherVars, sidVars, apiVars, switchVars, pendingKeyExchange,
                pendingConfirmations, confirmedSessions, keyStore, keyExchangeError,
                keyExchanges, keyConfirmations, serverSessions, nextEph, nextNonce,
                initiators, forged, sent, sentConfirmations, derivations, ev>>

\* fetchMessages: GET /api/messages, decrypt each message, setMessages
fetchedMessages(p, q) ==
    [i \in 1 .. Len(GetMessages(p, q)) |->
        DecryptedMessage(GetMessages(p, q)[i],
            decrypt(p, q, GetMessages(p, q)[i].ciphertext, GetMessages(p, q)[i].iv,
                    GetMessages(p, q)[i].authTag))]

fetchMessages(p, q) ==
    /\ messageList[p] # fetchedMessages(p, q)
    /\ messageList' = [messageList EXCEPT ![p] = fetchedMessages(p, q)]
    /\ sessionKeys' = [sessionKeys EXCEPT ![p][q] =
                          loadSessionKeyInternal(sessionKeys, keyStore, p, q)]
    /\ DecryptFrame

\* handleNewMessage: a new_message event of the open chat is decrypted and joins the
\* list, with its content or marked as failed, unless a message with its id is there
handleNewMessage(p, q, e) ==
    /\ e \in emitted
    /\ e.to = p
    /\ InConversation(e.payload, p, q)
    /\ \A i \in 1 .. Len(messageList[p]) : messageList[p][i].id # e.payload.id
    /\ messageList' = [messageList EXCEPT ![p] =
          Append(@, DecryptedMessage(e.payload,
                        decrypt(p, q, e.payload.ciphertext, e.payload.iv,
                                e.payload.authTag)))]
    /\ sessionKeys' = [sessionKeys EXCEPT ![p][q] =
                          loadSessionKeyInternal(sessionKeys, keyStore, p, q)]
    /\ DecryptFrame

\* what encryptMessage returns for the text "a" under the session key the sender
\* holds, or under a key of the attacker when the sender holds none
GenuineEnvelope(senderId, recipientId) ==
    IF loadSessionKeyInternal(sessionKeys, keyStore, senderId, recipientId) = NoKey
    THEN encryptMessage(MalloryKey, IV(1), <<"a">>)
    ELSE encryptMessage(loadSessionKeyInternal(sessionKeys, keyStore, senderId, recipientId),
                        IV(1), <<"a">>)

\* an envelope made under another key and another iv
OtherEnvelope == encryptMessage(MalloryKey, IV(2), <<"a">>)

\* the bodies a new_message may carry: what encryptMessage returned, as it is or with
\* its ciphertext, iv or authTag exchanged for another one, and the other envelope
Bodies(senderId, recipientId) ==
    {GenuineEnvelope(senderId, recipientId),
     OtherEnvelope,
     [GenuineEnvelope(senderId, recipientId) EXCEPT !.ciphertext = OtherEnvelope.ciphertext],
     [GenuineEnvelope(senderId, recipientId) EXCEPT !.iv = OtherEnvelope.iv],
     [GenuineEnvelope(senderId, recipientId) EXCEPT !.authTag = OtherEnvelope.authTag]}

\* ------------------------------------------------- session ids
\* the longest user id
MaxIdLen == 2

\* the characters of a user id, with their UTF-16 code
IdChars == {"-", ":", "a", "b"}
CharCode(c) == CASE c = "-" -> 45 [] c = ":" -> 58 [] c = "a" -> 97 [] c = "b" -> 98

UserIds == SeqsUpTo(IdChars, MaxIdLen) \ {<<>>}

\* x < y for strings: the first code unit that differs decides, a proper prefix is less
RECURSIVE StringLess(_, _)
StringLess(x, y) ==
    IF y = <<>> THEN FALSE
    ELSE IF x = <<>> THEN TRUE
    ELSE IF Head(x) # Head(y) THEN CharCode(Head(x)) < CharCode(Head(y))
    ELSE StringLess(Tail(x), Tail(y))

\* a pair left in the order it was given
Unsorted(pair) == pair

\* [x, y].sort(): the elements are exchanged when the second is less than the first
SortPair(pair) == IF StringLess(pair[2], pair[1]) THEN <<pair[2], pair[1]>> ELSE pair

\* [x, y].join(separator)
JoinPair(pair, separator) == pair[1] \o <<separator>> \o pair[2]

\* getSessionId of the client: [userId1, userId2].sort().join("-")
getSessionIdString(userId1, userId2) == JoinPair(SortPair(<<userId1, userId2>>), "-")

\* getSymmetricSessionId of the store: [userId1, userId2].sort().join("-")
getSymmetricSessionId(userId1, userId2) == JoinPair(SortPair(<<userId1, userId2>>), "-")

\* the session-key routes of the Express server: [userId1, userId2].sort().join(":")
ExpressSessionId(userId1, userId2) == JoinPair(SortPair(<<userId1, userId2>>), ":")

SessionIdsOf(userId1, userId2) ==
    [client |-> getSessionIdString(userId1, userId2),
     store |-> getSymmetricSessionId(userId1, userId2),
     express |-> ExpressSessionId(userId1, userId2)]

NoSessionIdCall ==
    [userId1 |-> <<>>, userId2 |-> <<>>,
     forward |-> [client |-> <<>>, store |-> <<>>, express |-> <<>>],
     backward |-> [client |-> <<>>, store |-> <<>>, express |-> <<>>]]

SidInit == sessionIdCall = NoSessionIdCall

\* the session id of two users is computed, by each of them with its own id first
ComputeSessionIds(userId1, userId2) ==
    /\ sessionIdCall = NoSessionIdCall
    /\ sessionIdCall' = [userId1 |-> userId1, userId2 |-> userId2,
                         forward |-> SessionIdsOf(userId1, userId2),
                         backward |-> SessionIdsOf(userId2, userId1)]
    /\ UNCHANGED <<now, hsVars, guardVars, chatVars, idVars, cipherVars, apiVars, switchVars>>

\* ------------------------------------------------- identity keys
\* the identity key pairs generateSigningKeyPair may return
MaxIdentityKeys == 3

\* getKeys("identity") finds nothing
NoIdentity == 0

IdInit ==
    /\ identityStore = [p \in Honest |-> NoIdentity]
    /\ usersCollection = [p \in Honest |-> NoIdentity]
    /\ nextIdentity = 1
    /\ currentUser = [p \in Honest |-> "none"]

IdFrame == UNCHANGED <<now, hsVars, guardVars, chatVars, cipherVars, sidVars, apiVars, switchVars>>

\* generateIdentityKeys: a new key pair, put under the id "identity"; put replaces
\* an entry with the same id
generateIdentityKeys(store, p) == [store EXCEPT ![p] = nextIdentity]

\* loadIdentityKeys, and generateIdentityKeys when nothing is stored
loadOrGenerate(store, p) ==
    IF store[p] # NoIdentity THEN store ELSE generateIdentityKeys(store, p)

\* the effect run when the page mounts in the browser p
initCrypto(p) ==
    /\ nextIdentity <= MaxIdentityKeys
    /\ identityStore' = loadOrGenerate(identityStore, p)
    /\ nextIdentity' = IF identityStore[p] # NoIdentity THEN nextIdentity
                       ELSE nextIdentity + 1
    /\ UNCHANGED <<usersCollection, currentUser>>
    /\ IdFrame

\* handleRegister: generateIdentityKeys, then POST /api/auth/register, which refuses
\* a username that exists; setCurrentUser when it did not
handleRegister(p, username) ==
    /\ nextIdentity <= MaxIdentityKeys
    /\ identityStore' = generateIdentityKeys(identityStore, p)
    /\ nextIdentity' = nextIdentity + 1
    /\ usersCollection' = IF usersCollection[username] # NoIdentity THEN usersCollection
                          ELSE [usersCollection EXCEPT ![username] = nextIdentity]
    /\ currentUser' = IF usersCollection[username] # NoIdentity THEN currentUser
                      ELSE [currentUser EXCEPT ![p] = username]
    /\ IdFrame

\* handleLogin of a registered user: loadIdentityKeys, generateIdentityKeys when
\* nothing is stored, setCurrentUser
handleLogin(p, username) ==
    /\ nextIdentity <= MaxIdentityKeys
    /\ usersCollection[username] # NoIdentity
    /\ identityStore' = loadOrGenerate(identityStore, p)
    /\ nextIdentity' = IF identityStore[p] # NoIdentity THEN nextIdentity
                       ELSE nextIdentity + 1
    /\ currentUser' = [currentUser EXCEPT ![p] = username]
    /\ UNCHANGED usersCollection
    /\ IdFrame

\* ------------------------------------------------- two-factor authentication
\* the secrets generateTOTPSecret may return
MaxSecrets == 2

\* twoFactorSecret: null
NoSecret == 0
\* a body without totpCode
NoCode == 0

\* the password of the account and another one
Passwords == {"right", "wrong"}
TotpCodes == 0 .. MaxSecrets

\* generateTOTPAtCounter(secret, counter): the code is a function of the secret
generateTOTP(secret) == secret

\* verifyTOTP(secret, code): the code of a counter in the window equals the one given
verifyTOTP(secret, code) == generateTOTP(secret) = code

\* bcrypt.compare(password, user.passwordHash)
PasswordValid(password) == password = "right"

NoAuthRequest == [route |-> "none", password |-> "none", totpCode |-> NoCode,
                  status |-> 0, body |-> "none"]

\* the files one user may share with another
MaxFiles == 2
FileIds == 1 .. MaxFiles
\* a request without userId in its query
NoUser == "undefined"
NoData == <<>>
NoDownload == [handler |-> "none", id |-> 0, userId |-> NoUser, status |-> 0,
               error |-> "none", encryptedData |-> NoData]

\* a1 is registered: twoFactorEnabled false, twoFactorSecret null; no file is stored
ApiInit ==
    /\ account = [twoFactorEnabled |-> FALSE, twoFactorSecret |-> NoSecret]
    /\ nextSecret = 1
    /\ authLog = NoAuthRequest
    /\ files = <<>>
    /\ download = NoDownload

AuthFrame ==
    UNCHANGED <<now, hsVars, guardVars, chatVars, cipherVars, sidVars, files,
                download, switchVars>>

\* app.post("/api/auth/2fa/setup"): password checked, a new secret stored and
\* twoFactorEnabled set to false
TwoFactorSetup(password) ==
    /\ nextSecret <= MaxSecrets
    /\ IF ~PasswordValid(password)
       THEN /\ authLog' = [route |-> "2fa/setup", password |-> password,
                           totpCode |-> NoCode, status |-> 401,
                           body |-> "Invalid password"]
            /\ UNCHANGED <<account, nextSecret>>
       ELSE /\ account' = [twoFactorEnabled |-> FALSE, twoFactorSecret |-> nextSecret]
            /\ nextSecret' = nextSecret + 1
            /\ authLog' = [route |-> "2fa/setup", password |-> password,
                           totpCode |-> NoCode, status |-> 200, body |-> "secret"]
    /\ UNCHANGED idVars
    /\ AuthFrame

\* app.post("/api/auth/2fa/verify"): the body carries userId and totpCode only
TwoFactorVerify(totpCode) ==
    /\ totpCode # NoCode
    /\ IF account.twoFactorSecret = NoSecret
       THEN /\ authLog' = [route |-> "2fa/verify", password |-> "none",
                           totpCode |-> totpCode, status |-> 400,
                           body |-> "2FA not set up. Please set up 2FA first."]
            /\ UNCHANGED account
       ELSE IF ~verifyTOTP(account.twoFactorSecret, totpCode)
       THEN /\ authLog' = [route |-> "2fa/verify", password |-> "none",
                           totpCode |-> totpCode, status |-> 401,
                           body |-> "Invalid 2FA code"]
            /\ UNCHANGED account
       ELSE /\ account' = [account EXCEPT !.twoFactorEnabled = TRUE]
            /\ authLog' = [route |-> "2fa/verify", password |-> "none",
                           totpCode |-> totpCode, status |-> 200, body |-> "success"]
    /\ UNCHANGED <<nextSecret, idVars>>
    /\ AuthFrame

\* app.post("/api/auth/2fa/disable"): the answer
DisableResponse(password, totpCode) ==
    IF ~PasswordValid(password)
    THEN [status |-> 401, body |-> "Invalid password"]
    ELSE IF account.twoFactorEnabled /\ account.twoFactorSecret # NoSecret
               /\ totpCode = NoCode
    THEN [status |-> 400, body |-> "2FA code required to disable 2FA"]
    ELSE IF account.twoFactorEnabled /\ account.twoFactorSecret # NoSecret
               /\ ~verifyTOTP(account.twoFactorSecret, totpCode)
    THEN [status |-> 401, body |-> "Invalid 2FA code"]
    ELSE [status |-> 200, body |-> "success"]

\* app.post("/api/auth/2fa/disable")
TwoFactorDisable(password, totpCode) ==
    /\ account' = IF DisableResponse(password, totpCode).status = 200
                  THEN [twoFactorEnabled |-> FALSE, twoFactorSecret |-> NoSecret]
                  ELSE account
    /\ authLog' = [route |-> "2fa/disable", password |-> password, totpCode |-> totpCode,
                   status |-> DisableResponse(password, totpCode).status,
                   body |-> DisableResponse(password, totpCode).body]
    /\ UNCHANGED <<nextSecret, idVars>>
    /\ AuthFrame

\* the body that only asks for the code: { requires2FA: true, message }
RequiresTwoFactor == "requires2FA"

\* app.post("/api/auth/login"): the answer; the user document is told by its username
LoginResponse(username, password, totpCode) ==
    IF ~PasswordValid(password)
    THEN [status |-> 401, body |-> "Invalid credentials"]
    ELSE IF account.twoFactorEnabled /\ account.twoFactorSecret # NoSecret
               /\ totpCode = NoCode
    THEN [status |-> 200, body |-> RequiresTwoFactor]
    ELSE IF account.twoFactorEnabled /\ account.twoFactorSecret # NoSecret
               /\ ~verifyTOTP(account.twoFactorSecret, totpCode)
    THEN [status |-> 401, body |-> "Invalid 2FA code"]
    ELSE [status |-> 200, body |-> username]

\* POST /api/auth/login by any client, with or without a totpCode
PostLogin(password, totpCode) ==
    /\ authLog' = [route |-> "login", password |-> password, totpCode |-> totpCode,
                   status |-> LoginResponse("a1", password, totpCode).status,
                   body |-> LoginResponse("a1", password, totpCode).body]
    /\ UNCHANGED <<account, nextSecret, idVars>>
    /\ AuthFrame

\* handleLogin(username, password) of the page: the body it posts has no totpCode;
\* when the answer is ok its body is taken as the user and setCurrentUser is called
handleLoginPassword(p, password) ==
    /\ nextIdentity <= MaxIdentityKeys
    /\ authLog' = [route |-> "login", password |-> password, totpCode |-> NoCode,
                   status |-> LoginResponse("a1", password, NoCode).status,
                   body |-> LoginResponse("a1", password, NoCode).body]
    /\ IF LoginResponse("a1", password, NoCode).status = 200
       THEN /\ identityStore' = loadOrGenerate(identityStore, p)
            /\ nextIdentity' = IF identityStore[p] # NoIdentity THEN nextIdentity
                               ELSE nextIdentity + 1
            /\ currentUser' = [currentUser EXCEPT ![p] =
                                  LoginResponse("a1", password, NoCode).body]
       ELSE UNCHANGED <<identityStore, nextIdentity, currentUser>>
    /\ UNCHANGED <<account, nextSecret, usersCollection>>
    /\ AuthFrame

\* ------------------------------------------------- shared files
FileFrame ==
    UNCHANGED <<now, hsVars, guardVars, chatVars, idVars, cipherVars, sidVars,
                account, nextSecret, authLog, switchVars>>

\* app.post("/api/files"): the document is inserted; its id is fresh
PostFile(senderId, recipientId) ==
    /\ Len(files) < MaxFiles
    /\ files' = Append(files, [id |-> Len(files) + 1, senderId |-> senderId,
                               recipientId |-> recipientId,
                               encryptedData |-> <<Len(files) + 1>>])
    /\ UNCHANGED download
    /\ FileFrame

\* app.get("/api/files/:id") of the Express server
ExpressGetFile(id, userId) ==
    /\ download' =
          IF id > Len(files)
          THEN [handler |-> "express", id |-> id, userId |-> userId, status |-> 404,
                error |-> "File not found", encryptedData |-> NoData]
          ELSE IF files[id].senderId # userId /\ files[id].recipientId # userId
          THEN [handler |-> "express", id |-> id, userId |-> userId, status |-> 403,
                error |-> "Access denied", encryptedData |-> NoData]
          ELSE [handler |-> "express", id |-> id, userId |-> userId, status |-> 200,
                error |-> "none", encryptedData |-> files[id].encryptedData]
    /\ UNCHANGED files
    /\ FileFrame

\* GET of the Next route app/api/files/[id]: store.getFile(id), the document returned
RouteGetFile(id, userId) ==
    /\ download' =
          IF id > Len(files)
          THEN [handler |-> "route", id |-> id, userId |-> userId, status |-> 404,
                error |-> "File not found", encryptedData |-> NoData]
          ELSE [handler |-> "route", id |-> id, userId |-> userId, status |-> 200,
                error |-> "none", encryptedData |-> files[id].encryptedData]
    /\ UNCHANGED files
    /\ FileFrame

\* ------------------------------------------------- switching between chats
\* selectedUser is null
NoSelection == "none"

\* the browser whose chats are switched
SwitchClients == {"a1"}

\* how many handlers of the page wait for a promise at a time
MaxInflight == 2

MayWait == Cardinality(inflight) < MaxInflight

SwitchInit ==
    /\ selectedUser = [p \in Honest |-> NoSelection]
    /\ inflight = {}

SwitchFrame ==
    UNCHANGED <<now, guardVars, cipherVars, sidVars, apiVars, pendingKeyExchange,
                pendingConfirmations, confirmedSessions, keyStore, keyExchangeError,
                keyExchanges, keyConfirmations, serverSessions, nextEph, nextNonce,
                initiators, forged, sent, sentConfirmations, derivations, ev>>

\* a handler of the page that waits for a promise: the user and the selected user it
\* took when it started, and what it will put into the list
Waiting(handler, stage, p, captured, list, r) ==
    [handler |-> handler, stage |-> stage, browser |-> p, userId |-> currentUser[p],
     captured |-> captured, list |-> list, request |-> r]

\* onSelectUser={setSelectedUser}, with the effects on selectedUser and on
\* selectedUser?.id: the ref follows and the list is emptied
onSelectUser(p, q) ==
    /\ currentUser[p] # "none"
    /\ q # currentUser[p]
    /\ q # selectedUser[p]
    /\ selectedUser' = [selectedUser EXCEPT ![p] = q]
    /\ messageList' = [messageList EXCEPT ![p] = <<>>]
    /\ UNCHANGED <<inflight, idVars, sessionKeys>>
    /\ SwitchFrame

\* handleLogout: no current user, no selected user, an empty list
handleLogout(p) ==
    /\ currentUser[p] # "none"
    /\ currentUser' = [currentUser EXCEPT ![p] = "none"]
    /\ selectedUser' = [selectedUser EXCEPT ![p] = NoSelection]
    /\ messageList' = [messageList EXCEPT ![p] = <<>>]
    /\ UNCHANGED <<inflight, identityStore, usersCollection, nextIdentity, sessionKeys>>
    /\ SwitchFrame

\* otherUserId of handleNewMessage and fetchMessages
otherUserId(msg, userId) == IF msg.senderId = userId THEN msg.recipientId ELSE msg.senderId

\* [...prev, message] unless prev.find((m) => m.id === message.id)
AppendUnlessFound(prev, message) ==
    IF \E i \in 1 .. Len(prev) : prev[i].id = message.id THEN prev
    ELSE Append(prev, message)

\* handleNewMessage up to await decrypt: the ref is read, a message that is not of
\* the open chat is dropped, decryption starts
handleNewMessageStart(p, e) ==
    /\ e \in emitted
    /\ currentUser[p] # "none"
    /\ e.to = currentUser[p]
    /\ InConversation(e.payload, currentUser[p], selectedUser[p])
    /\ LET other == otherUserId(e.payload, currentUser[p])
           waiting == Waiting("handleNewMessage", "decrypt", p, selectedUser[p],
                         <<DecryptedMessage(e.payload,
                               decrypt(p, other, e.payload.ciphertext, e.payload.iv,
                                       e.payload.authTag))>>, e.request)
       IN /\ MayWait
          /\ waiting \notin inflight
          /\ inflight' = inflight \cup {waiting}
          /\ sessionKeys' = [sessionKeys EXCEPT ![p][other] =
                                loadSessionKeyInternal(sessionKeys, keyStore, p, other)]
    /\ UNCHANGED <<selectedUser, messageList, idVars>>
    /\ SwitchFrame

\* handleNewMessage after await decrypt, for the content and for the failure alike:
\* nothing when the ref holds another user than at the start, else the message joins
\* the list unless its id is there
handleNewMessageDone(w) ==
    /\ w \in inflight
    /\ w.handler = "handleNewMessage"
    /\ inflight' = inflight \ {w}
    /\ messageList' =
          IF selectedUser[w.browser] # w.captured THEN messageList
          ELSE [messageList EXCEPT ![w.browser] = AppendUnlessFound(@, w.list[1])]
    /\ UNCHANGED <<selectedUser, idVars, sessionKeys>>
    /\ SwitchFrame

\* fetchMessages up to await fetch: targetUserId is taken and the GET is sent
fetchMessagesStart(p) ==
    /\ currentUser[p] # "none"
    /\ selectedUser[p] # NoSelection
    /\ MayWait
    /\ Waiting("fetchMessages", "fetch", p, selectedUser[p], <<>>, "none") \notin inflight
    /\ inflight' = inflight \cup
          {Waiting("fetchMessages", "fetch", p, selectedUser[p], <<>>, "none")}
    /\ UNCHANGED <<selectedUser, messageList, idVars, sessionKeys>>
    /\ SwitchFrame

\* the messages the GET returned, each decrypted or marked as failed
fetchedBy(p, userId, targetUserId) ==
    [i \in 1 .. Len(GetMessages(userId, targetUserId)) |->
        DecryptedMessage(GetMessages(userId, targetUserId)[i],
            decrypt(p, otherUserId(GetMessages(userId, targetUserId)[i], userId),
                    GetMessages(userId, targetUserId)[i].ciphertext,
                    GetMessages(userId, targetUserId)[i].iv,
                    GetMessages(userId, targetUserId)[i].authTag))]

\* fetchMessages when the GET has answered: the data is dropped when the ref holds
\* another user than targetUserId, else decryption of the data starts
fetchMessagesResponse(w) ==
    /\ w \in inflight
    /\ w.handler = "fetchMessages" /\ w.stage = "fetch"
    /\ inflight' =
          IF selectedUser[w.browser] # w.captured THEN inflight \ {w}
          ELSE (inflight \ {w}) \cup
               {[w EXCEPT !.stage = "decrypt",
                          !.list = fetchedBy(w.browser, w.userId, w.captured)]}
    /\ sessionKeys' =
          IF selectedUser[w.browser] # w.captured THEN sessionKeys
          ELSE [sessionKeys EXCEPT ![w.browser][w.captured] =
                   loadSessionKeyInternal(sessionKeys, keyStore, w.browser, w.captured)]
    /\ UNCHANGED <<selectedUser, messageList, idVars>>
    /\ SwitchFrame

\* fetchMessages after Promise.all: setMessages(decryptedMessages) when the ref holds
\* targetUserId
fetchMessagesDone(w) ==
    /\ w \in inflight
    /\ w.handler = "fetchMessages" /\ w.stage = "decrypt"
    /\ inflight' = inflight \ {w}
    /\ messageList' =
          IF selectedUser[w.browser] # w.captured THEN messageList
          ELSE [messageList EXCEPT ![w.browser] = w.list]
    /\ UNCHANGED <<selectedUser, idVars, sessionKeys>>
    /\ SwitchFrame

\* handleSendMessage up to await fetch: encrypt for the selected user, which throws
\* without a session key, then POST /api/messages with sequenceNumber messages.length
\* and no timestamp field
handleSendMessageStart(p, r, nonce) ==
    /\ currentUser[p] # "none"
    /\ selectedUser[p] # NoSelection
    /\ MayWait
    /\ MayArrive(r)
    /\ loadSessionKeyInternal(sessionKeys, keyStore, p, selectedUser[p]) # NoKey
    /\ sessionKeys' = [sessionKeys EXCEPT ![p][selectedUser[p]] =
                          loadSessionKeyInternal(sessionKeys, keyStore, p, selectedUser[p])]
    /\ requests' = [requests EXCEPT ![r] =
          ExpressArrival(<<currentUser[p], selectedUser[p]>>, nonce, Len(messageList[p]),
                         NoTimestamp)]
    /\ inflight' = inflight \cup
          {Waiting("handleSendMessage", "fetch", p, selectedUser[p], <<>>, r)}
    /\ UNCHANGED <<selectedUser, messageList, idVars, messages, nonces, emitted, now,
                   cipherVars, sidVars, apiVars, pendingKeyExchange, pendingConfirmations,
                   confirmedSessions, keyStore, keyExchangeError, keyExchanges,
                   keyConfirmations, serverSessions, nextEph, nextNonce, initiators,
                   forged, sent, sentConfirmations, derivations, ev>>

\* handleSendMessage when the POST has answered: if (response.ok) the message of the
\* answer joins the list unless its id is there; the ref is not looked at
handleSendMessageDone(w) ==
    /\ w \in inflight
    /\ w.handler = "handleSendMessage"
    /\ requests[w.request].pc \in {"accepted", "rejected"}
    /\ inflight' = inflight \ {w}
    /\ messageList' =
          IF requests[w.request].pc = "rejected" THEN messageList
          ELSE [messageList EXCEPT ![w.browser] =
                   AppendUnlessFound(@,
                       DecryptedMessage(Message(w.request, requests[w.request]),
                                        [ok |-> TRUE, content |-> <<"a">>]))]
    /\ UNCHANGED <<selectedUser, idVars, sessionKeys>>
    /\ SwitchFrame

\* time passes: a millisecond more than the window
Tick ==
    /\ now < MaxTick * Window
    /\ now' = now + TimeStep
    /\ UNCHANGED <<hsVars, guardVars, chatVars, idVars, cipherVars, sidVars, apiVars, switchVars>>

\* time passes: exactly the window
TickWindow ==
    /\ now < MaxTick * Window
    /\ now' = now + Window
    /\ UNCHANGED <<hsVars, guardVars, chatVars, idVars, cipherVars, sidVars, apiVars, switchVars>>

\* setMessages([]) when a chat is opened
ChatInit == messageList = [p \in Honest |-> <<>>]

Init ==
    /\ HsInit /\ GuardInit /\ ChatInit /\ IdInit /\ CipherInit /\ SidInit /\ ApiInit
    /\ SwitchInit

\* the clients exchanging keys, and the attacker on the network
Next ==
    \/ Tick
    \/ \E p \in initiators : \E q \in Honest \ {p} : Initiate(p, q)
    \/ \E p \in Honest : \E data \in keyExchanges : HandleInitReject(p, data)
    \/ \E p \in Honest : \E data \in keyExchanges : HandleInit(p, data)
    \/ \E p \in Honest : \E data \in keyExchanges : HandleResponseIgnore(p, data)
    \/ \E p \in Honest : \E data \in keyExchanges : HandleResponseReject(p, data)
    \/ \E p \in Honest : \E data \in keyExchanges : HandleResponse(p, data)
    \/ \E p \in Honest : \E data \in keyConfirmations : HandleConfirmNoKey(p, data)
    \/ \E p \in Honest : \E data \in keyConfirmations : HandleConfirmFailed(p, data)
    \/ \E p \in Honest : \E data \in keyConfirmations : HandleConfirm(p, data)
    \/ \E p \in Honest : \E q \in Honest \ {p} : encrypt(p, q)
    \/ \E m \in sent : TamperEphemeralKey(m)
    \/ \E m \in sent : SubstituteKeys(m)
    \/ \E m \in sent : ReplayExchange(m)
    \/ \E c \in sentConfirmations : ForgeConfirmation(c)
    \/ \E c \in sentConfirmations : ReplayConfirmation(c)

Spec == Init /\ [][Next]_vars

\* the key exchange against a clock that also stops exactly five minutes on
ClockNext ==
    \/ Tick
    \/ TickWindow
    \/ \E p \in initiators : \E q \in Honest \ {p} : Initiate(p, q)
    \/ \E p \in Honest : \E data \in keyExchanges : HandleInitReject(p, data)
    \/ \E p \in Honest : \E data \in keyExchanges : HandleInit(p, data)
    \/ \E p \in Honest : \E data \in keyExchanges : HandleResponseReject(p, data)
    \/ \E p \in Honest : \E data \in keyExchanges : HandleResponse(p, data)
    \/ \E m \in sent : TamperEphemeralKey(m)
    \/ \E m \in sent : ReplayExchange(m)

SpecClock == Init /\ [][ClockNext]_vars

\* a key exchange without the attacker, and the clients sending messages
SendNext ==
    \/ \E p \in initiators : \E q \in Honest \ {p} : Initiate(p, q)
    \/ \E p \in Honest : \E data \in keyExchanges : HandleInit(p, data)
    \/ \E p \in Honest : \E data \in keyExchanges : HandleResponse(p, data)
    \/ \E p \in Honest : \E data \in keyConfirmations : HandleConfirmNoKey(p, data)
    \/ \E p \in Honest : \E data \in keyConfirmations : HandleConfirm(p, data)
    \/ \E p \in Honest : \E q \in Honest \ {p} : \E r \in Requests :
          \E nonce \in GuardNonces : handleSendMessage(p, q, r, nonce)

SpecSend == Init /\ [][SendNext]_vars

\* a key exchange, the clients loading the key the relay keeps, and the attacker
\* writing to the relay's sessions collection
SessionNext ==
    \/ \E p \in initiators : \E q \in Honest \ {p} : Initiate(p, q)
    \/ \E p \in Honest : \E data \in keyExchanges : HandleInit(p, data)
    \/ \E p \in Honest : \E data \in keyExchanges : HandleResponse(p, data)
    \/ \E p \in Honest : \E data \in keyConfirmations : HandleConfirmNoKey(p, data)
    \/ \E p \in Honest : \E data \in keyConfirmations : HandleConfirm(p, data)
    \/ \E p \in Honest : \E q \in Honest \ {p} : checkAndLoadSessionKey(p, q)
    \/ \E p \in Honest : \E q \in Honest \ {p} : PostForgedSessionKey(p, q)
    \/ \E p \in Honest : \E q \in Honest \ {p} : encrypt(p, q)

SpecSession == Init /\ [][SessionNext]_vars

\* the Express server: its POST /api/messages and its socket relay
RelayNext ==
    \/ Tick
    \/ \E r \in Requests, pair \in Pairs, nonce \in GuardNonces,
          sequenceNumber \in SequenceNumbers, timestamp \in ClientTimestamps :
             ExpressReceive(r, pair, nonce, sequenceNumber, timestamp)
    \/ \E r \in Requests : ExpressFindNonce(r)
    \/ \E r \in Requests : ExpressFindLast(r)
    \/ \E r \in Requests : ExpressInsert(r)
    \/ \E r \in Requests, pair \in Pairs, nonce \in GuardNonces,
          sequenceNumber \in SequenceNumbers, timestamp \in ClientTimestamps :
             RelaySendMessage(r, pair, nonce, sequenceNumber, timestamp)

SpecRelay == Init /\ [][RelayNext]_vars

\* browsers opening the page, registering and logging in
IdentityNext ==
    \/ \E p \in Honest : initCrypto(p)
    \/ \E p \in Honest : \E username \in Honest : handleRegister(p, username)
    \/ \E p \in Honest : \E username \in Honest : handleLogin(p, username)

SpecIdentity == Init /\ [][IdentityNext]_vars

\* two clients with a session key, the Express server admitting messages for
\* them, and the clients' open chats
ChatNext ==
    \/ \E p \in initiators : \E q \in Honest \ {p} : Initiate(p, q)
    \/ \E p \in Honest : \E data \in keyExchanges : HandleInit(p, data)
    \/ \E p \in Honest : \E data \in keyExchanges : HandleResponse(p, data)
    \/ \E r \in Requests, pair \in Pairs, nonce \in GuardNonces,
          sequenceNumber \in SequenceNumbers :
             ExpressReceive(r, pair, nonce, sequenceNumber, TimeStep)
    \/ \E r \in Requests : ExpressFindNonce(r)
    \/ \E r \in Requests : ExpressFindLast(r)
    \/ \E r \in Requests : ExpressInsert(r)
    \/ \E p \in Honest : \E q \in Honest \ {p} : \E r \in Requests :
          \E nonce \in GuardNonces : handleSendMessage(p, q, r, nonce)
    \/ \E p \in Honest : clearOnUserSwitch(p)
    \/ \E p \in Honest : \E q \in Honest \ {p} : fetchMessages(p, q)
    \/ \E p \in Honest : \E q \in Honest \ {p} : \E e \in emitted :
          handleNewMessage(p, q, e)

SpecChat == Init /\ [][ChatNext]_vars

\* texts and files encrypted and decrypted again
CipherNext ==
    \/ \E sessionKey \in CipherKeys, iv \in IVs, plaintext \in Texts :
          SealMessage(sessionKey, iv, plaintext)
    \/ \E sessionKey \in CipherKeys, iv \in IVs, fileData \in Files :
          SealFile(sessionKey, iv, fileData)
    \/ Open

SpecCipher == Init /\ [][CipherNext]_vars

\* two clients exchanging keys and receiving the messages the socket relay forwards
InboxNext ==
    \/ \E p \in initiators : \E q \in Honest \ {p} : Initiate(p, q)
    \/ \E p \in Honest : \E data \in keyExchanges : HandleInit(p, data)
    \/ \E p \in Honest : \E data \in keyExchanges : HandleResponse(p, data)
    \/ \E p \in Honest : \E data \in keyConfirmations : HandleConfirmNoKey(p, data)
    \/ \E p \in Honest : \E data \in keyConfirmations : HandleConfirm(p, data)
    \/ \E r \in Requests, pair \in Pairs :
          \E body \in Bodies(pair[1], pair[2]) : RelaySendEnvelope(r, pair, "n1", body)
    \/ \E p \in Honest : \E q \in Honest \ {p} : \E e \in emitted :
          handleNewMessage(p, q, e)

SpecInbox == Init /\ [][InboxNext]_vars

\* session ids computed for pairs of user ids
SessionIdNext ==
    \E userId1 \in UserIds : \E userId2 \in UserIds : ComputeSessionIds(userId1, userId2)

SpecSessionId == Init /\ [][SessionIdNext]_vars

\* a key exchange, and bodies with a field left out posted to the handshake routes
BoundaryNext ==
    \/ Tick
    \/ \E p \in initiators : \E q \in Honest \ {p} : Initiate(p, q)
    \/ \E p \in Honest : \E data \in keyExchanges : HandleInit(p, data)
    \/ \E p \in Honest : \E data \in keyExchanges : HandleResponse(p, data)
    \/ \E p \in Honest : \E data \in keyConfirmations : HandleConfirmNoKey(p, data)
    \/ \E p \in Honest : \E data \in keyConfirmations : HandleConfirm(p, data)
    \/ \E m \in sent : \E field \in ExchangeFields : PostIncompleteExchange(m, field)
    \/ \E c \in sentConfirmations : \E field \in ConfirmationFields :
          PostIncompleteConfirmation(c, field)

SpecBoundary == Init /\ [][BoundaryNext]_vars

\* one client starting the key exchange with the same recipient more than once,
\* events arriving late or twice
ReattemptNext ==
    \/ \E p \in Initiators : \E q \in Honest \ {p} : handleInitiateKeyExchange(p, q)
    \/ \E p \in Honest : \E data \in keyExchanges : HandleInit(p, data)
    \/ \E p \in Honest : \E data \in keyExchanges : HandleResponse(p, data)
    \/ \E p \in Honest : \E data \in keyConfirmations : HandleConfirmNoKey(p, data)
    \/ \E p \in Honest : \E data \in keyConfirmations : HandleConfirmFailed(p, data)
    \/ \E p \in Honest : \E data \in keyConfirmations : HandleConfirm(p, data)
    \/ \E m \in sent : ReplayExchange(m)
    \/ \E c \in sentConfirmations : ReplayConfirmation(c)

SpecReattempt == Init /\ [][ReattemptNext]_vars

\* one key exchange over a relay that delivers every event, in any order, some twice
DeliveryNext ==
    \/ \E p \in initiators : \E q \in Honest \ {p} : Initiate(p, q)
    \/ \E p \in Honest : \E data \in keyExchanges : HandleInit(p, data)
    \/ \E p \in Honest : \E data \in keyExchanges : HandleResponse(p, data)
    \/ \E p \in Honest : \E data \in keyConfirmations : HandleConfirmNoKey(p, data)
    \/ \E p \in Honest : \E data \in keyConfirmations : HandleConfirm(p, data)
    \/ \E m \in sent : ReplayExchange(m)
    \/ \E c \in sentConfirmations : ReplayConfirmation(c)

\* the socket delivers every emitted event and the listener runs its handler
DeliveryFairness ==
    /\ WF_vars(\E p \in initiators : \E q \in Honest \ {p} : Initiate(p, q))
    /\ WF_vars(\E p \in Honest : \E data \in keyExchanges : HandleInit(p, data))
    /\ WF_vars(\E p \in Honest : \E data \in keyExchanges : HandleResponse(p, data))
    /\ WF_vars(\E p \in Honest : \E data \in keyConfirmations : HandleConfirmNoKey(p, data))
    /\ WF_vars(\E p \in Honest : \E data \in keyConfirmations : HandleConfirm(p, data))

SpecDelivery == Init /\ [][DeliveryNext]_vars /\ DeliveryFairness

\* either client may start the key exchange with the other, once
SimultaneousNext ==
    \/ \E p \in Honest : \E q \in Honest \ {p} :
          Attempts(p, q) = {} /\ handleInitiateKeyExchange(p, q)
    \/ \E p \in Honest : \E data \in keyExchanges : HandleInit(p, data)
    \/ \E p \in Honest : \E data \in keyExchanges : HandleResponse(p, data)
    \/ \E p \in Honest : \E data \in keyConfirmations : HandleConfirmNoKey(p, data)
    \/ \E p \in Honest : \E data \in keyConfirmations : HandleConfirmFailed(p, data)
    \/ \E p \in Honest : \E data \in keyConfirmations : HandleConfirm(p, data)

SpecSimultaneous == Init /\ [][SimultaneousNext]_vars

\* key exchanges of both clients, the attacker sending their messages on to a client
\* they were not signed for
RedirectNext ==
    \/ \E p \in Honest : \E q \in Honest \ {p} :
          Attempts(p, q) = {} /\ handleInitiateKeyExchange(p, q)
    \/ \E p \in Honest : \E data \in keyExchanges : HandleInitReject(p, data)
    \/ \E p \in Honest : \E data \in keyExchanges : HandleInit(p, data)
    \/ \E p \in Honest : \E data \in keyExchanges : HandleResponseIgnore(p, data)
    \/ \E p \in Honest : \E data \in keyExchanges : HandleResponseReject(p, data)
    \/ \E p \in Honest : \E data \in keyExchanges : HandleResponse(p, data)
    \/ \E m \in sent : \E senderId \in Users : \E recipientId \in Honest :
          RedirectExchange(m, senderId, recipientId)

SpecRedirect == Init /\ [][RedirectNext]_vars

\* the account of a1 and the auth routes, called by anyone who knows what they ask for
TwoFactorNext ==
    \/ \E password \in Passwords : TwoFactorSetup(password)
    \/ \E totpCode \in TotpCodes : TwoFactorVerify(totpCode)
    \/ \E password \in Passwords : \E totpCode \in TotpCodes :
          TwoFactorDisable(password, totpCode)
    \/ \E password \in Passwords : \E totpCode \in TotpCodes : PostLogin(password, totpCode)
    \/ \E p \in Honest : \E password \in Passwords : handleLoginPassword(p, password)

SpecTwoFactor == Init /\ [][TwoFactorNext]_vars

\* files shared between users and downloads asked for by anyone
FilesNext ==
    \/ \E senderId \in Users : \E recipientId \in Users \ {senderId} :
          PostFile(senderId, recipientId)
    \/ \E id \in FileIds : \E userId \in Users \cup {NoUser} : ExpressGetFile(id, userId)
    \/ \E id \in FileIds : \E userId \in Users \cup {NoUser} : RouteGetFile(id, userId)

SpecFiles == Init /\ [][FilesNext]_vars

\* the messages that reach the relay while the chats are switched
SwitchPairs == {<<"m1", "a1">>}

\* a browser where users log in and out and switch between chats while messages
\* arrive, are fetched and are sent
SwitchNext ==
    \/ \E p \in initiators : \E q \in Honest \ {p} : Initiate(p, q)
    \/ \E p \in Honest : \E data \in keyExchanges : HandleInit(p, data)
    \/ \E p \in Honest : \E data \in keyExchanges : HandleResponse(p, data)
    \/ \E r \in Requests, pair \in SwitchPairs :
          ExpressReceive(r, pair, "n1", 1, TimeStep)
    \/ \E r \in Requests : ExpressFindNonce(r)
    \/ \E r \in Requests : ExpressFindLast(r)
    \/ \E r \in Requests : ExpressInsert(r)
    \/ \E p \in SwitchClients : \E username \in Honest :
          currentUser[p] = "none" /\ handleRegister(p, username)
    \/ \E p \in SwitchClients : \E username \in Honest :
          currentUser[p] = "none" /\ handleLogin(p, username)
    \/ \E p \in SwitchClients : handleLogout(p)
    \/ \E p \in SwitchClients : \E q \in Users : onSelectUser(p, q)
    \/ \E p \in SwitchClients : \E e \in emitted : handleNewMessageStart(p, e)
    \/ \E w \in inflight : handleNewMessageDone(w)
    \/ \E p \in SwitchClients : fetchMessagesStart(p)
    \/ \E w \in inflight : fetchMessagesResponse(w)
    \/ \E w \in inflight : fetchMessagesDone(w)
    \/ \E p \in SwitchClients : \E r \in Requests : handleSendMessageStart(p, r, "n2")
    \/ \E w \in inflight : handleSendMessageDone(w)

SpecSwitch == Init /\ [][SwitchNext]_vars

\* the relay admitting messages
GuardNext ==
    \/ Tick
    \/ \E r \in Requests, pair \in Pairs, nonce \in GuardNonces,
          sequenceNumber \in SequenceNumbers, timestamp \in ClientTimestamps :
             ExpressReceive(r, pair, nonce, sequenceNumber, timestamp)
    \/ \E r \in Requests : ExpressFindNonce(r)
    \/ \E r \in Requests : ExpressFindLast(r)
    \/ \E r \in Requests : ExpressInsert(r)
    \/ \E r \in Requests, pair \in Pairs, nonce \in GuardNonces,
          sequenceNumber \in SequenceNumbers, timestamp \in ClientTimestamps :
             RouteReceive(r, pair, nonce, sequenceNumber, timestamp)
    \/ \E r \in Requests, pair \in Pairs, nonce \in GuardNonces,
          sequenceNumber \in SequenceNumbers :
             SocketReceive(r, pair, nonce, sequenceNumber)
    \/ \E r \in Requests : StoreIsNonceUsed(r)
    \/ \E r \in Requests : StoreMarkNonceUsed(r)
    \/ \E r \in Requests : StoreAddMessage(r)

SpecGuard == Init /\ [][GuardNext]_vars

\* ------------------------------------------------------------- properties
\* an initiator's and a responder's derivation of one handshake, each from the
\* message the other sent, unmodified
Matched(dA, dB) ==
    /\ dA.role = "initiator" /\ dB.role = "responder"
    /\ dA.exchange \in sent /\ dB.exchange \in sent
    /\ dA.party = dB.exchange.senderId /\ dB.party = dA.exchange.senderId
    /\ dA.initNonce = dB.initNonce /\ dA.responseNonce = dB.responseNonce

\* the confirmation c of d's party verifies under the key k of its peer
VerifiesUnder(k, d, c) ==
    verifyKeyConfirmation(k, d.party, c.recipientId, c.originalNonce, c.confirmationNonce,
                          c.confirmationHash)

SignedByDirectoryKey(x, receiver) ==
    verifySignature(IdentityPublicKey(x.senderId), x.signature,
                    DataToSign(x.ephemeralPublicKey, receiver, x.timestamp, x.nonce))

\* C2: a client derives a session key from an Init or a Response only if its signature
\* verifies under the identity public key the user directory publishes for senderId.
C2_OnlyDirectoryKeyAccepted ==
    \A d \in derivations : SignedByDirectoryKey(d.exchange, d.party)

\* x is a key exchange an honest client sent, with another ephemeralPublicKey and the
\* other fields as sent
TamperedInTransit(x) ==
    \E m \in sent : /\ m.ephemeralPublicKey # x.ephemeralPublicKey
                    /\ x = [m EXCEPT !.ephemeralPublicKey = x.ephemeralPublicKey]

InvalidSignatureErrors ==
    {"Invalid signature - possible MITM attack",
     "Invalid response signature - possible MITM attack"}

\* C3: an Init or Response whose ephemeralPublicKey was changed in transit is never
\* accepted: no key is derived from it, every Response and Confirmation that was sent
\* and every key held in memory or in IndexedDB stems from a derivation from another
\* message, and, its timestamp being within the window, the handler ends with the
\* invalid-signature error.
C3_TamperedEphemeralKeyRejected ==
    /\ \A d \in derivations : ~TamperedInTransit(d.exchange)
    /\ ev.kind \in {"InitAccepted", "ResponseAccepted"} => ~TamperedInTransit(ev.exchange)
    /\ \A r \in sent : r.type = "response" =>
          \E d \in derivations : /\ d.role = "responder" /\ d.party = r.senderId
                                 /\ d.responseNonce = r.nonce
    /\ \A c \in sentConfirmations : \E d \in derivations : d.confirmation = c
    /\ \A p \in Honest : \A q \in Users :
          /\ sessionKeys[p][q] # NoKey =>
                \E d \in derivations : d.party = p /\ d.key = sessionKeys[p][q]
          /\ keyStore[p][getSessionId(p, q)] # NoKey =>
                \E d \in derivations : d.party = p /\ d.key = keyStore[p][getSessionId(p, q)]
    /\ ( /\ ev.kind \in {"InitRejected", "ResponseRejected"}
         /\ TamperedInTransit(ev.exchange)
         /\ ~TimestampExpired(NowMs, ev.exchange.timestamp) )
       => keyExchangeError[ev.party] \in InvalidSignatureErrors

\* a client handled a tampered Init within the window and ended with the error, keyless
C3_Witness ==
    /\ ev.kind = "InitRejected"
    /\ TamperedInTransit(ev.exchange)
    /\ ~TimestampExpired(NowMs, ev.exchange.timestamp)
    /\ keyExchangeError[ev.party] \in InvalidSignatureErrors
    /\ sessionKeys[ev.party][ev.peer] = NoKey

\* C4: encrypt finds a session key for a peer only if both clients of the pair have
\* verified the other's key confirmation.
C4_EncryptOnlyWhenEstablished ==
    ev.kind = "Encrypted" =>
       /\ ev.peer \in confirmedSessions[ev.party]
       /\ ev.party \in confirmedSessions[ev.peer]

\* C5: when handleKeyConfirmation finds the HMAC wrong, the session key for that peer
\* is gone from memory and from IndexedDB.
C5_FailedConfirmationDiscardsKey ==
    ev.kind = "ConfirmFailed" =>
       /\ sessionKeys[ev.party][ev.peer] = NoKey
       /\ keyStore[ev.party][getSessionId(ev.party, ev.peer)] = NoKey

\* request r was admitted: its message is in the collection
IsAccepted(r) == \E i \in 1 .. Len(messages) : messages[i].id = r
Position(r) == CHOOSE i \in 1 .. Len(messages) : messages[i].id = r

\* each of the two arrived before the other was admitted
Concurrent(r1, r2) ==
    /\ Position(r1) > requests[r2].seen
    /\ Position(r2) > requests[r1].seen

SamePair(x, y) == x.senderId = y.senderId /\ x.recipientId = y.recipientId

\* C6: of two requests with the same nonce (here: to the same handler, for the same
\* pair) that are processed concurrently, at most one is admitted.
C6_ConcurrentSameNonceAdmitsOne ==
    \A r1 \in Requests : \A r2 \in Requests \ {r1} :
       ( /\ requests[r1].handler = requests[r2].handler
         /\ requests[r1].nonce = requests[r2].nonce
         /\ SamePair(requests[r1], requests[r2])
         /\ IsAccepted(r1) /\ IsAccepted(r2) )
       => ~Concurrent(r1, r2)

\* C7: a request that arrives at POST /api/messages after a message with its nonce was
\* admitted there is not admitted, whatever its sender and recipient.
C7_AdmittedNonceNeverAgain ==
    \A r \in Requests :
       (requests[r].handler = "express" /\ IsAccepted(r)) =>
          \A i \in 1 .. requests[r].seen :
             requests[messages[i].id].handler = "express"
                => messages[i].nonce # requests[r].nonce

\* C8: for every ordered pair the admitted messages have strictly increasing
\* sequence numbers, in the order of their admission.
C8_SequenceStrictlyIncreasing ==
    \A i \in 1 .. Len(messages) : \A j \in 1 .. Len(messages) :
       (i < j /\ SamePair(messages[i], messages[j]))
          => messages[i].sequenceNumber < messages[j].sequenceNumber

\* C9: of two concurrent requests to POST /api/messages for the same ordered pair with
\* the same sequenceNumber and different nonces, at most one is admitted.
C9_ConcurrentSameSequenceAdmitsOne ==
    \A r1 \in Requests : \A r2 \in Requests \ {r1} :
       ( /\ requests[r1].handler = "express" /\ requests[r2].handler = "express"
         /\ SamePair(requests[r1], requests[r2])
         /\ requests[r1].sequenceNumber = requests[r2].sequenceNumber
         /\ requests[r1].nonce # requests[r2].nonce
         /\ IsAccepted(r1) /\ IsAccepted(r2) )
       => ~Concurrent(r1, r2)

\* C10: for every ordered pair the messages admitted by POST /api/messages have
\* strictly increasing timestamps, in the order of their admission.
C10_TimestampStrictlyIncreasing ==
    \A i \in 1 .. Len(messages) : \A j \in 1 .. Len(messages) :
       ( /\ i < j /\ SamePair(messages[i], messages[j])
         /\ requests[messages[i].id].handler = "express"
         /\ requests[messages[j].id].handler = "express" )
          => messages[i].timestamp < messages[j].timestamp

\* the timestamp the body of r carries is outside the window when r arrives
OutOfWindow(q) == q.supplied # NoTimestamp /\ TimestampExpired(q.arrivedAt, q.supplied)

\* C11: a request whose timestamp differs from the relay's clock by more than five
\* minutes, into the past or the future, is neither stored nor relayed.
C11_OutOfWindowNeitherStoredNorRelayed ==
    \A r \in Requests :
       (requests[r].pc # "idle" /\ OutOfWindow(requests[r])) =>
          /\ ~IsAccepted(r)
          /\ \A e \in emitted : e.request # r

ExpiredErrors == {"Key exchange timestamp expired", "Response timestamp expired"}

\* the identity key in x is the sender's own and the signature of x verifies under it
ValidlySigned(x, receiver) ==
    /\ x.senderPublicKey = IdentityPublicKey(x.senderId)
    /\ SignedByDirectoryKey(x, receiver)

\* C12: whenever a client handles an Init or a Response whose timestamp is more than
\* five minutes from its clock, it ends with the timestamp-expired error, whether the
\* signature is valid or not, and accepts nothing; a validly signed message that is
\* five minutes old or less is not rejected.
C12_TimestampCheckedFirst ==
    [][ \A p \in Honest : \A data \in keyExchanges :
           /\ ( /\ HandleInitReject(p, data) \/ HandleResponseReject(p, data)
                /\ AbsDiff(NowMs, data.timestamp) > Window )
              => keyExchangeError'[p] \in ExpiredErrors
           /\ (HandleInit(p, data) \/ HandleResponse(p, data))
              => AbsDiff(NowMs, data.timestamp) <= Window
           /\ ( /\ AbsDiff(NowMs, data.timestamp) <= Window
                /\ ValidlySigned(data, p) )
              => ~(HandleInitReject(p, data) \/ HandleResponseReject(p, data))
      ]_vars

\* a client handled an Init as its sender signed it, five minutes and a millisecond
\* old, and ended with the timestamp-expired error
C12_Witness ==
    /\ ev.kind = "InitRejected"
    /\ ValidlySigned(ev.exchange, ev.party)
    /\ ev.exchange \in sent
    /\ NowMs - ev.exchange.timestamp = TimeStep
    /\ keyExchangeError[ev.party] = "Key exchange timestamp expired"

\* both clients of the pair hold the same session key
HoldSessionKey(p, q) ==
    /\ loadSessionKeyInternal(sessionKeys, keyStore, p, q) # NoKey
    /\ loadSessionKeyInternal(sessionKeys, keyStore, p, q)
          = loadSessionKeyInternal(sessionKeys, keyStore, q, p)

\* C13: once both clients hold the session key, the first message a client sends,
\* with sequenceNumber 0, is admitted by the guard.
C13_FirstMessageAdmitted ==
    \A r \in Requests :
       ( /\ requests[r].handler = "express"
         /\ requests[r].senderId \in Honest /\ requests[r].recipientId \in Honest
         /\ HoldSessionKey(requests[r].senderId, requests[r].recipientId)
         /\ requests[r].sequenceNumber = 0
         /\ requests[r].seen = 0 )
       => requests[r].pc # "rejected"

\* C14: the relay never holds a session key: no client sends an exported session key
\* to it, so its sessions collection stays empty of keys.
C14_RelayHoldsNoSessionKey ==
    \A s \in SessionIds : serverSessions[s] = NoKey

\* the key p holds for q is one p derived in a key exchange with q
OwnHandshakeKey(p, q) ==
    \E d \in derivations :
       /\ d.party = p
       /\ d.exchange.senderId = q
       /\ d.key = loadSessionKeyInternal(sessionKeys, keyStore, p, q)

\* C15: a client holds a session key for a peer, and counts the session with that
\* peer confirmed, only when the key comes from its own key exchange with the peer;
\* a key the relay or anyone else supplied is never installed.
C15_OnlyOwnHandshakeInstallsKey ==
    \A p \in Honest : \A q \in Honest \ {p} :
       ( \/ loadSessionKeyInternal(sessionKeys, keyStore, p, q) # NoKey
         \/ q \in confirmedSessions[p] )
       => OwnHandshakeKey(p, q)

\* the key p uses for q after the step
ActiveKeyAfter(p, q) == loadSessionKeyInternal(sessionKeys', keyStore', p, q)

\* C16: the session key a client holds for a peer is replaced only by a key exchange
\* that has been confirmed; a key exchange that derives a key and is not confirmed
\* leaves the key held before in place.
C16_KeyReplacedOnlyWhenConfirmed ==
    [][ \A p \in Honest : \A q \in Honest \ {p} :
           ( /\ loadSessionKeyInternal(sessionKeys, keyStore, p, q) # NoKey
             /\ ActiveKeyAfter(p, q) # loadSessionKeyInternal(sessionKeys, keyStore, p, q) )
           => /\ ev'.kind = "ConfirmOk"
              /\ ev'.party = p
              /\ ev'.peer = q
      ]_vars

\* C17: every new_message the relay delivers belongs to a request the replay and
\* ordering guard accepted; nothing is forwarded unchecked.
C17_DeliveredOnlyAfterGuard ==
    \A e \in emitted : requests[e.request].pc = "accepted"

\* the relay forwarded an exchange carrying this nonce before
NonceAdmitted(nonce) == \E x \in sent : x.nonce = nonce

\* C18: the relay forwards an Init or a Response to its recipient only when the
\* timestamp is within five minutes of the relay's clock and the nonce has not been
\* admitted before.
C18_HandshakeGuarded ==
    [][ \A m \in keyExchanges' \ keyExchanges :
           /\ ~TimestampExpired(NowMs, m.timestamp)
           /\ ~NonceAdmitted(m.nonce)
      ]_vars

\* C19: for one attempt the initiator completes the key exchange at most once: a
\* Response and a duplicate of it lead to one derivation and one confirmation sent.
C19_ResponseCompletedOnce ==
    \A d1 \in derivations : \A d2 \in derivations :
       ( /\ d1.role = "initiator" /\ d2.role = "initiator"
         /\ d1.party = d2.party
         /\ d1.initNonce = d2.initNonce )
       => d1 = d2

\* the events with which a client ends a key exchange attempt in error
AbortEvents == {"ResponseRejected", "ConfirmFailed"}

\* C20: when a client's key exchange attempt ends with a timestamp, signature or
\* confirmation failure, the client no longer holds the attempt's pending state, its
\* ephemeral private key and nonce.
C20_AbortDiscardsPending ==
    ev.kind \in AbortEvents => pendingKeyExchange[ev.party] = NoPending

\* C21: an identity key pair that is stored is never replaced: registering, logging
\* in and opening the page leave a stored key pair as it is.
C21_StoredIdentityKept ==
    [][ \A p \in Honest :
           identityStore[p] # NoIdentity => identityStore'[p] = identityStore[p]
      ]_vars

C24_DecryptInvertsEncrypt ==
    (original.kind # "none" /\ opened # NotOpened) =>
        /\ opened.ok
        /\ opened.content = original.content

\* ciphertext, iv and authTag of msg are what encryptMessage returns under key
Authentic(msg, key) ==
    \E iv \in IVs : \E text \in Texts :
       [ciphertext |-> msg.ciphertext, iv |-> msg.iv, authTag |-> msg.authTag]
          = encryptMessage(key, iv, text)

\* C23: when a client handles a received message whose ciphertext, iv or tag does not
\* authenticate under the session key, that message is listed as failed, without
\* content; the key the client holds for the peer, its stored copy and the confirmed
\* sessions stay as they were, and a message that does authenticate is decrypted.
C23_FailedDecryptionIsPerMessage ==
    [][ \A p \in Honest : \A q \in Honest \ {p} : \A e \in emitted :
           handleNewMessage(p, q, e) =>
              /\ ActiveKeyAfter(p, q) = loadSessionKeyInternal(sessionKeys, keyStore, p, q)
              /\ confirmedSessions' = confirmedSessions
              /\ keyStore' = keyStore
              /\ messageList'[p][Len(messageList'[p])].id = e.payload.id
              /\ ~Authentic(e.payload, loadSessionKeyInternal(sessionKeys, keyStore, p, q))
                    => /\ ~messageList'[p][Len(messageList'[p])].decrypted
                       /\ messageList'[p][Len(messageList'[p])].content = <<>>
              /\ ( /\ loadSessionKeyInternal(sessionKeys, keyStore, p, q) # NoKey
                   /\ Authentic(e.payload, loadSessionKeyInternal(sessionKeys, keyStore, p, q)) )
                    => messageList'[p][Len(messageList'[p])].decrypted
      ]_vars

\* a client with a confirmed session lists a message whose tag was exchanged as
\* failed and, after it, the message with the right tag as decrypted
C23_Witness ==
    \E p \in Honest : \E q \in confirmedSessions[p] :
       /\ Len(messageList[p]) = 2
       /\ messageList[p][1].senderId = q
       /\ messageList[p][2].senderId = q
       /\ ~messageList[p][1].decrypted
       /\ messageList[p][1].ciphertext = messageList[p][2].ciphertext
       /\ messageList[p][1].iv = messageList[p][2].iv
       /\ messageList[p][1].authTag # messageList[p][2].authTag
       /\ messageList[p][2].decrypted
       /\ messageList[p][2].content = <<"a">>

\* C25: the session id of two users is the same whichever of the two ids comes
\* first, for the client's getSessionId, the store's getSymmetricSessionId and the
\* Express server's session-key routes.
C25_SessionIdSymmetric ==
    sessionIdCall.forward = sessionIdCall.backward

\* the ids were given with the greater one first, so that sort exchanged them
C25_Witness ==
    /\ StringLess(sessionIdCall.userId2, sessionIdCall.userId1)
    /\ sessionIdCall.forward.client
          = sessionIdCall.userId2 \o <<"-">> \o sessionIdCall.userId1
    /\ sessionIdCall.forward.express
          = sessionIdCall.userId2 \o <<":">> \o sessionIdCall.userId1
    /\ sessionIdCall.backward = sessionIdCall.forward

ConfirmationFieldsPresent(c) ==
    /\ c.senderId # "none" /\ c.recipientId # "none" /\ c.confirmationHash.data # <<>>
    /\ c.confirmationNonce # 0 /\ c.originalNonce # 0 /\ c.timestamp # Undefined

\* C26: the relay forwards an Init, a Response or a confirmation only when the body
\* has every field of its kind; a confirmation without a timestamp is not forwarded.
C26_IncompleteBodyRejected ==
    [][ /\ \A m \in keyExchanges' \ keyExchanges : KeyExchangeFieldsPresent(m)
        /\ \A c \in keyConfirmations' \ keyConfirmations : ConfirmationFieldsPresent(c)
      ]_vars

\* C27: when two honest clients each count the session with the other confirmed, the
\* session keys they hold for each other are equal, however the key exchanges were
\* ordered, duplicated or overlapped.
C27_ConfirmedSessionsShareKey ==
    \A p \in Honest : \A q \in Honest \ {p} :
       (q \in confirmedSessions[p] /\ p \in confirmedSessions[q])
       => loadSessionKeyInternal(sessionKeys, keyStore, p, q)
             = loadSessionKeyInternal(sessionKeys, keyStore, q, p)

\* C28: an initiator's pending attempt is completed, its pending state cleared, only
\* after the initiator received and verified a Response for that attempt; a
\* confirmation arriving while the Response is awaited does not complete it.
C28_EstablishedOnlyAfterResponse ==
    [][ \A p \in Honest :
           (pendingKeyExchange[p] # NoPending /\ pendingKeyExchange'[p] = NoPending)
           => \E d \in derivations :
                 /\ d.party = p
                 /\ d.role = "initiator"
                 /\ d.initNonce = pendingKeyExchange[p].nonce
      ]_vars

\* the Response carrying responseNonce was sent in answer to the Init carrying initNonce
Answers(responseNonce, initNonce) ==
    \E d \in derivations :
       /\ d.role = "responder"
       /\ d.responseNonce = responseNonce
       /\ d.initNonce = initNonce

\* C29: a Response is applied only to the attempt whose Init it answers: the
\* initiator derives a session key from an attempt's ephemeral private key and nonce
\* only with the Response sent in answer to that attempt's Init.
C29_ResponseAppliedToItsAttempt ==
    \A d \in derivations :
       d.role = "initiator" => Answers(d.responseNonce, d.initNonce)

\* C30: a client accepts a confirmation only while it retains the Init nonce of a
\* key exchange with the sender and the confirmation's originalNonce equals it.
C30_ConfirmationNeedsPendingNonce ==
    [][ \A c \in keyConfirmations \ keyConfirmations' :
           (ev'.kind = "ConfirmOk" /\ ev'.confirmation = c)
           => /\ pendingConfirmations[ev'.party][c.senderId] # NoNonce
              /\ pendingConfirmations[ev'.party][c.senderId] = c.originalNonce
      ]_vars

\* the initiator p and the responder q have both completed the key exchange
Established(p, q) ==
    /\ q \in confirmedSessions[p]
    /\ pendingKeyExchange[p] = NoPending
    /\ p \in confirmedSessions[q]

\* C31: when the relay delivers every event once, in whatever order, a key exchange
\* that was started brings initiator and responder to Established, also when the
\* responder's confirmation reaches the initiator before the Response was handled.
C31_HandshakeCompletes ==
    [](forged = 0) => ((initiators = {}) ~> Established("a1", "b1"))

\* p sent its Init to q before it handled an Init of q: nonces are numbered in the
\* order they are generated
InitiatedBeforeReceiving(p, q) ==
    /\ Attempts(p, q) # {}
    /\ \A m \in Attempts(p, q) : \A d \in derivations :
          (d.party = p /\ d.role = "responder") => m.nonce < d.responseNonce

\* every key exchange event and confirmation has been delivered and handled
AllDelivered == keyExchanges = {} /\ keyConfirmations = {}

\* C32: when both clients start the key exchange at the same time, each sending its
\* Init before it receives the other's, then once every message has been delivered
\* and handled the two hold the same session key for each other.
C32_SimultaneousInitSameKey ==
    ( /\ InitiatedBeforeReceiving("a1", "b1")
      /\ InitiatedBeforeReceiving("b1", "a1")
      /\ AllDelivered )
    => loadSessionKeyInternal(sessionKeys, keyStore, "a1", "b1")
          = loadSessionKeyInternal(sessionKeys, keyStore, "b1", "a1")

\* the counterparty id in the string a key exchange message was signed over
SignedFor(m) == m.signature.data[2]

\* C33: the signature binds the intended counterparty: a client accepts an Init or a
\* Response, and derives a key from it, only when the message was signed for that
\* client, also when the message was sent on to it with recipientId rewritten.
C33_SignatureBindsCounterparty ==
    \A d \in derivations : SignedFor(d.exchange) = d.party

\* a Response an honest client signed for another client was sent on to a client
\* awaiting a Response, which turned it away over the signature
C33_Witness ==
    /\ ev.kind = "ResponseRejected"
    /\ ev.exchange.signature.signer \in Honest
    /\ ev.exchange.recipientId = ev.party
    /\ SignedFor(ev.exchange) # ev.party
    /\ keyExchangeError[ev.party] = "Invalid response signature - possible MITM attack"

\* the errors with which the guard turns a request away over its order
OrderErrors == {"Replay attack detected: invalid sequence number",
                "Replay attack detected: invalid timestamp ordering"}

\* C34: the guard records the nonce of a request once the request has passed the
\* window and nonce checks: a request turned away over its sequence number or
\* timestamp order has used up its nonce, so that the duplicate-nonce lookup finds
\* it for a later request.
C34_OrderRejectionConsumesNonce ==
    \A r \in Requests :
       ( /\ requests[r].handler = "express"
         /\ requests[r].pc = "rejected"
         /\ requests[r].error \in OrderErrors )
       => existingWithSameNonce(requests[r])

\* the last accepted sequence number and timestamp of the ordered pair <<p, q>>
LastAccepted(p, q, stored) ==
    {<<stored[i].sequenceNumber, stored[i].timestamp>> :
        i \in {j \in 1 .. Len(stored) :
                 /\ stored[j].senderId = p /\ stored[j].recipientId = q
                 /\ \A k \in 1 .. Len(stored) :
                       (stored[k].senderId = p /\ stored[k].recipientId = q)
                          => stored[k].sequenceNumber <= stored[j].sequenceNumber}}

\* C35: a request the guard turns away over its sequence number or timestamp order
\* leaves the last accepted sequence number and timestamp of every ordered pair as
\* they were, stores no message and emits no new_message.
C35_OrderRejectionChangesNothing ==
    [][ \A r \in Requests :
           ( /\ requests[r].handler = "express"
             /\ requests[r].pc # "rejected"
             /\ requests'[r].pc = "rejected"
             /\ requests'[r].error \in OrderErrors )
           => /\ \A pair \in Pairs :
                    LastAccepted(pair[1], pair[2], messages')
                       = LastAccepted(pair[1], pair[2], messages)
              /\ messages' = messages
              /\ emitted' = emitted
      ]_vars

\* a request was turned away over its order while a message of its pair is stored
C35_Witness ==
    \E r \in Requests :
       /\ requests[r].handler = "express"
       /\ requests[r].pc = "rejected"
       /\ requests[r].error \in OrderErrors
       /\ LastAccepted(requests[r].senderId, requests[r].recipientId, messages) # {}
       /\ \A i \in 1 .. Len(messages) : messages[i].id # r
       /\ \A e \in emitted : e.request # r

\* C36: the identity public key the directory publishes for a user is the public key
\* of the key pair in the local storage of the browser the user is logged in at; no
\* key pair is generated there without its public key becoming the published one.
C36_PublishedKeyIsStoredKey ==
    \A p \in Honest :
       currentUser[p] # "none" => usersCollection[currentUser[p]] = identityStore[p]

\* the request of this step carried the password and a code valid for the secret
PasswordAndCode(secret) ==
    /\ PasswordValid(authLog'.password)
    /\ authLog'.totpCode # NoCode
    /\ verifyTOTP(secret, authLog'.totpCode)

\* C37: two-factor authentication, once enabled, is switched off only by a request
\* that carries the right password and a valid TOTP code; no call with the password
\* alone turns twoFactorEnabled from true to false.
C37_DisableNeedsPasswordAndCode ==
    [][ (account.twoFactorEnabled /\ ~account'.twoFactorEnabled)
           => PasswordAndCode(account.twoFactorSecret)
      ]_vars

\* C38: with two-factor authentication enabled, the server returns the user and the
\* client sets its current user only when the password is right and a valid TOTP code
\* was given; an answer that only asks for the code logs nobody in.
C38_LoginNeedsPasswordAndCode ==
    [][ account.twoFactorEnabled
           => /\ (authLog'.route = "login" /\ authLog'.body = "a1")
                    => PasswordAndCode(account.twoFactorSecret)
              /\ \A p \in Honest :
                    currentUser'[p] # currentUser[p]
                       => PasswordAndCode(account.twoFactorSecret)
      ]_vars

\* C39: a download returns the encrypted file only to its sender or its recipient;
\* anyone else gets "Access denied" and nothing of the file.
C39_DownloadOnlyForParties ==
    ( /\ download.handler # "none"
      /\ download.id <= Len(files)
      /\ download.userId # files[download.id].senderId
      /\ download.userId # files[download.id].recipientId )
    => /\ download.status = 403
       /\ download.error = "Access denied"
       /\ download.encryptedData = NoData

\* C40: however chat switches interleave with decryptions, fetches and sends that
\* complete later, the list a browser shows holds only messages between its current
\* user and its selected user, and no message id twice.
C40_ListOfOpenChatOnly ==
    \A p \in Honest :
        /\ \A i \in 1 .. Len(messageList[p]) :
              InConversation(messageList[p][i], currentUser[p], selectedUser[p])
        /\ \A i, j \in 1 .. Len(messageList[p]) :
              messageList[p][i].id = messageList[p][j].id => i = j
====
